---- MODULE Spec2Model ----
(***************************************************************************)
(* Model of the secret-syncer controller: Reconcile of a Kueue Workload    *)
(* (pkg/reconciler/reconciler.go) run by the work-queue workers, against   *)
(* the hub cluster (Workload cache, MultiKueueCluster registry, secrets)   *)
(* and the spoke clusters (PipelineRuns, secrets).                         *)
(*                                                                         *)
(* Conventions.  A Go pointer is a sequence: <<>> is nil, <<x>> points to  *)
(* x.  An error is a sequence of the tokens of its text, Nil is no error;  *)
(* fmt.Errorf("ctx: %w", err) prepends the context tokens to the cause, so  *)
(* the cause stays recognisable as errors.Is/As sees it.  A resource key   *)
(* "a/b" is the sequence of its "/"-separated parts.  A map is a function. *)
(***************************************************************************)
EXTENDS Integers, Sequences, FiniteSets, TLC

VARIABLES
    workloads,          \* hub: the Workload informer cache, key -> Workload
    mkClusters,         \* hub: MultiKueueCluster registry, name -> object
    hubSecrets,         \* hub: secrets, <<namespace, name>> -> Secret
    spokePipelineRuns,  \* spoke, per API server host: <<namespace, name>> -> PipelineRun
    spokeSecrets,       \* spoke, per API server host: the set of Secret objects
    inv,                \* per worker: the locals of its Reconcile invocation
    queue,              \* the work queue: the set of keys waiting for a worker
    event,              \* the informer event handled last, and what it enqueued
    environ,            \* the environment variables of the controller's process
    reconciler          \* the Reconciler NewController built: its kueueNamespace

vars ==
    <<workloads, mkClusters, hubSecrets, spokePipelineRuns, spokeSecrets, inv, queue, event,
      environ, reconciler>>

\* Length of the owner-reference list of the hub secret ns/git-creds.
MaxOwnerRefs == 2
\* How many registrations, and how many credential secrets, a hub of the
\* resolver's specification may lack.
MaxUnregistered == 2
MaxMissingSecrets == 1

Workers == {"w1", "w2"}

Nil == <<>>
NilPtr == <<>>
NoObj == [kind |-> "none"]
NoMap == [x \in {} |-> ""]

groupName == "pipelinesascode.tekton.dev"
gitAuthSecret == <<groupName, "git-auth-secret">>
kueueNamespace == "kueue-system"

HostA == "https://cluster-a.example.com:6443"
HostB == "https://cluster-b.example.com:6443"
Hosts == {HostA, HostB}
\* The API server of the hub, as the controller's own pod reaches it.
HostHub == "https://kubernetes.default.svc:443"

----------------------------------------------------------------------------
(* apimachinery errors, as the code tests them *)

ErrNotFound(resource, name) == <<resource, name, "not found">>
ErrAlreadyExists(resource, name) == <<resource, name, "already exists">>
ErrForbidden(resource, name) == <<resource, name, "is forbidden">>
ErrInternal(resource, name) == <<resource, name, "internal error">>

IsNotFound(err) == err # Nil /\ err[Len(err)] = "not found"
IsAlreadyExists(err) == err # Nil /\ err[Len(err)] = "already exists"

----------------------------------------------------------------------------
(* Objects *)

OwnerRef(kind, name, uid, controller) ==
    [kind |-> kind, name |-> name, uid |-> uid, controller |-> controller]

\* The i-th owner reference of the hub secret: references of different kinds,
\* all carrying hub-side UIDs.
HubOwnerRef(i) ==
    IF i % 2 = 1 THEN OwnerRef("PipelineRun", "plr-1", "hub-uid-plr-1", TRUE)
                 ELSE OwnerRef("Job", "job-1", "hub-uid-job-1", FALSE)

Secret(namespace, name, type, data, labels, annotations, ownerReferences) ==
    [kind |-> "Secret", namespace |-> namespace, name |-> name, type |-> type,
     data |-> data, labels |-> labels, annotations |-> annotations,
     ownerReferences |-> ownerReferences]

\* A kubeconfig payload: the serialized connection descriptor.
KubeConfig(server, cert) == [format |-> "kubeconfig", server |-> server, cert |-> cert]

PipelineRun(namespace, name, uid, annotations, done) ==
    [kind |-> "PipelineRun", namespace |-> namespace, name |-> name, uid |-> uid,
     annotations |-> annotations, done |-> done]

Workload(namespace, name, active, clusterName, ownerReferences) ==
    [kind |-> "Workload", namespace |-> namespace, name |-> name, active |-> active,
     clusterName |-> clusterName, ownerReferences |-> ownerReferences]

MultiKueueCluster(name, locationType, location) ==
    [kind |-> "MultiKueueCluster", name |-> name,
     locationType |-> locationType, location |-> location]

----------------------------------------------------------------------------
(* The clusters a run starts from *)

Ctrl(kind, name) == OwnerRef(kind, name, "hub-uid-" \o name, TRUE)
NonCtrl(kind, name) == OwnerRef(kind, name, "hub-uid-" \o name, FALSE)

\* Owner-reference lists a Workload may carry, by the name part they give it.
OwnerShapes ==
       "noowner" :> <<>>
    @@ "job" :> <<Ctrl("Job", "job-1")>>
    @@ "plr-nonctrl" :> <<NonCtrl("PipelineRun", "plr-2")>>
    @@ "job.plr-nonctrl" :> <<Ctrl("Job", "job-1"), NonCtrl("PipelineRun", "plr-2")>>
    @@ "job-nonctrl.plr-2" :> <<NonCtrl("Job", "job-1"), Ctrl("PipelineRun", "plr-2")>>
    @@ [n \in {"plr-1", "plr-2", "plr-3", "plr-4", "plr-5", "plr-6", "plr-7"} |->
           <<Ctrl("PipelineRun", n)>>]

ActiveShapes == "unset" :> NilPtr @@ "active" :> <<TRUE>> @@ "inactive" :> <<FALSE>>

ClusterShapes ==
       "unscheduled" :> NilPtr
    @@ "emptycluster" :> <<"">>
    @@ [c \in {"cluster-a", "cluster-b", "cluster-x", "cluster-badcert", "cluster-nosecret",
               "cluster-nokey", "cluster-garbled", "cluster-path", "cluster-file",
               "cluster-cm"} |-> <<c>>]

\* The Workloads a cache may hold: in namespace ns every combination of active
\* flag, cluster name and owner-reference list; in namespace ns2 one Workload
\* on cluster-b.
WorkloadSet ==
    {Workload("ns", a \o "." \o c \o "." \o o, ActiveShapes[a], ClusterShapes[c], OwnerShapes[o]) :
        a \in DOMAIN ActiveShapes, c \in DOMAIN ClusterShapes, o \in DOMAIN OwnerShapes}
    \cup {Workload("ns2", "unset.cluster-b.plr-1", NilPtr, <<"cluster-b">>, OwnerShapes["plr-1"])}

KeyOf(obj) == <<obj.namespace, obj.name>>

\* The cache holding the Workloads of the set objs.
CacheOf(objs) == [k \in {KeyOf(wl) : wl \in objs} |-> CHOOSE wl \in objs : KeyOf(wl) = k]

\* Keys that name no cached Workload: the key of a Workload deleted from the
\* cache, a key with no namespace part, and a key SplitMetaNamespaceKey
\* rejects.
StrayKeys == {<<"ns", "deleted">>, <<"active.cluster-a.plr-1">>, <<"ns", "a", "b">>}

\* Workloads whose reconciliations sync a secret to cluster-a or cluster-b.
SyncingWorkloads ==
    {wl \in WorkloadSet :
        KeyOf(wl) \in {<<"ns", "active.cluster-a.plr-1">>, <<"ns", "unset.cluster-a.plr-2">>,
                       <<"ns2", "unset.cluster-b.plr-1">>}}

InitMkClusters ==
    LET C(n, t, l) == n :> MultiKueueCluster(n, t, l)
    IN  C("cluster-a", "Secret", "kubeconfig-a")
     @@ C("cluster-b", "Secret", "kubeconfig-b")
     @@ C("cluster-badcert", "Secret", "kubeconfig-badcert")
     @@ C("cluster-nosecret", "Secret", "kubeconfig-absent")
     @@ C("cluster-nokey", "Secret", "kubeconfig-nokey")
     @@ C("cluster-garbled", "Secret", "kubeconfig-garbled")
     @@ C("cluster-path", "Path", "/etc/kubeconfig/absent")
     @@ C("cluster-file", "Path", "/etc/kubeconfig/cluster-b")
     @@ C("cluster-badfile", "Path", "/etc/kubeconfig/garbled")
     @@ C("cluster-emptypath", "Path", "")
     @@ C("cluster-cm", "ConfigMap", "kubeconfig-a")
     @@ C("cluster-lowercase", "secret", "kubeconfig-a")
     @@ C("cluster-notype", "", "/etc/kubeconfig/cluster-b")

InitHubSecrets ==
    LET S(ns, n, type, data, labels, ann, owners) ==
            <<ns, n>> :> Secret(ns, n, type, data, labels, ann, owners)
        K(n, payload) == S(kueueNamespace, n, "Opaque", payload, NoMap, NoMap, <<>>)
    IN  K("kubeconfig-a", "kubeconfig" :> KubeConfig(HostA, "ok"))
     @@ K("kubeconfig-b", "kubeconfig" :> KubeConfig(HostB, "ok"))
     @@ K("kubeconfig-badcert", "kubeconfig" :> KubeConfig(HostA, "bad"))
     @@ K("kubeconfig-nokey", "config" :> KubeConfig(HostA, "ok"))
     @@ K("kubeconfig-garbled", "kubeconfig" :> [format |-> "garbled"])
     @@ S("ns", "git-creds", "kubernetes.io/basic-auth", "token" :> "abc",
          "app" :> "pac", <<groupName, "repo">> :> "r1",
          [i \in 1..MaxOwnerRefs |-> HubOwnerRef(i)])
     @@ S("ns2", "git-creds", "Opaque", "token" :> "xyz", NoMap, NoMap, <<>>)

\* The PipelineRun ns/plr-1 of cluster-a, created on the spoke during the run.
Plr1 == PipelineRun("ns", "plr-1", "spoke-uid-plr-1", gitAuthSecret :> "git-creds", FALSE)

InitSpokePipelineRuns ==
    LET P(ns, n, ann, done) == <<ns, n>> :> PipelineRun(ns, n, "spoke-uid-" \o n, ann, done)
    IN  HostA :> (   P("ns", "plr-2", gitAuthSecret :> "git-creds", FALSE)
                  @@ P("ns", "plr-3", NoMap, FALSE)
                  @@ P("ns", "plr-4", gitAuthSecret :> "git-creds", TRUE)
                  @@ P("ns", "plr-5", gitAuthSecret :> "", FALSE)
                  @@ P("ns", "plr-6", gitAuthSecret :> "absent-creds", FALSE)
                  @@ P("ns", "plr-7", NoMap, TRUE))
     @@ HostB :> P("ns2", "plr-1", gitAuthSecret :> "git-creds", FALSE)

\* What another actor may have put on a spoke under a secret identity the
\* controller syncs.
ForeignSecrets ==
    HostA :> {Secret("ns", "git-creds", "Opaque", "token" :> "stale", NoMap, NoMap,
                     <<OwnerRef("PipelineRun", "plr-0", "spoke-uid-plr-0", TRUE)>>)}
 @@ HostB :> {}

----------------------------------------------------------------------------
(* Library calls the reconciler makes *)

\* cache.SplitMetaNamespaceKey: "name" and "namespace/name" are keys, anything
\* with more parts is rejected.
SplitMetaNamespaceKey(key) ==
    CASE Len(key) = 1 -> [namespace |-> "", name |-> key[1], err |-> Nil]
      [] Len(key) = 2 -> [namespace |-> key[1], name |-> key[2], err |-> Nil]
      [] OTHER -> [namespace |-> "", name |-> "", err |-> <<"unexpected key format">>]

\* workloadLister.Workloads(namespace).Get(name); fault is a failure of the
\* lister itself.
ListerGet(cache, namespace, name, fault) ==
    IF fault THEN [obj |-> NoObj, err |-> ErrInternal("workloads", name)]
    ELSE IF <<namespace, name>> \in DOMAIN cache
         THEN [obj |-> cache[<<namespace, name>>], err |-> Nil]
         ELSE [obj |-> NoObj, err |-> ErrNotFound("workloads", name)]

\* metav1.GetControllerOf: the first owner reference marked controller.
GetControllerOf(obj) ==
    LET idx == {i \in 1..Len(obj.ownerReferences) : obj.ownerReferences[i].controller}
    IN  IF idx = {} THEN NoObj
        ELSE obj.ownerReferences[CHOOSE i \in idx : \A j \in idx : i <= j]

\* A get of one object of a store (a function from identity to object) through
\* an API client; fault is a failure other than not-found (forbidden).
ClientGet(store, resource, id, name, fault) ==
    IF fault THEN [obj |-> NoObj, err |-> ErrForbidden(resource, name)]
    ELSE IF id \in DOMAIN store
         THEN [obj |-> store[id], err |-> Nil]
         ELSE [obj |-> NoObj, err |-> ErrNotFound(resource, name)]

\* Secrets(namespace).Create on a spoke API server holding the set `store`:
\* rejected when the server fails the request (fault) or when a secret of that
\* namespace and name exists.
ClientCreate(store, obj, fault) ==
    IF fault THEN [store |-> store, err |-> ErrForbidden("secrets", obj.name)]
    ELSE IF \E s \in store : s.namespace = obj.namespace /\ s.name = obj.name
         THEN [store |-> store, err |-> ErrAlreadyExists("secrets", obj.name)]
         ELSE [store |-> store \cup {obj}, err |-> Nil]

\* clientcmd.RESTConfigFromKubeConfig: parse the payload into a rest.Config.
RESTConfigFromKubeConfig(bytes) ==
    IF bytes.format = "kubeconfig"
    THEN [config |-> [Host |-> bytes.server, CertData |-> bytes.cert], err |-> Nil]
    ELSE [config |-> NoObj, err |-> <<"couldn't get version/kind; json parse error">>]

\* The files of the controller's file system that hold a kubeconfig.
Files ==
       "/etc/kubeconfig/cluster-b" :> KubeConfig(HostB, "ok")
    @@ "/etc/kubeconfig/garbled" :> [format |-> "garbled"]

\* rest.InClusterConfig: the connection to the hub the pod's service account
\* gives, when the process runs in a pod.
InClusterConfig(inCluster) ==
    IF inCluster
    THEN [config |-> [Host |-> HostHub, CertData |-> "ok"], err |-> Nil]
    ELSE [config |-> NoObj,
          err |-> <<"unable to load in-cluster configuration">>]

\* clientcmd.BuildConfigFromFlags("", path): with the empty path, the
\* in-cluster configuration when there is one; otherwise load and parse the
\* file at path.
BuildConfigFromFlags(path, inCluster) ==
    IF path = ""
    THEN IF InClusterConfig(inCluster).err = Nil THEN InClusterConfig(inCluster)
         ELSE [config |-> NoObj,
               err |-> <<"invalid configuration: no configuration has been provided">>]
    ELSE IF path \in DOMAIN Files THEN RESTConfigFromKubeConfig(Files[path])
    ELSE [config |-> NoObj, err |-> <<"stat", path, "no such file or directory">>]

\* kubernetes.NewForConfig / tektonversioned.NewForConfig: building the
\* transport fails on unusable certificate data.
NewForConfig(config) ==
    IF config.CertData = "ok" THEN Nil ELSE <<"unable to load client certificate">>

Call(op, err) == [op |-> op, err |-> err]

----------------------------------------------------------------------------
(* The reconciler's components *)

\* clusterLookupError without the cluster name.
clusterLookupErrorUnnamed(clusterName, err) ==
    <<"could not find MultiKueueCluster", ":">> \o err

\* fmt.Errorf("could not find MultiKueueCluster %s: %w", clusterName, err)
clusterLookupError(clusterName, err) ==
    <<"could not find MultiKueueCluster", clusterName, ":">> \o err

\* kubeconfigSecretKey looking the secret up under the cluster's name.
kubeconfigSecretKeyByClusterName(rec, mkCluster) == <<rec.kueueNamespace, mkCluster.name>>

\* Namespace and name of the get of the credential secret:
\* Secrets(r.kueueNamespace).Get(ctx, kubeConfig.Location).
kubeconfigSecretKey(rec, mkCluster) == <<rec.kueueNamespace, mkCluster.location>>

\* secretLookupError naming the secret without its namespace.
secretLookupErrorWithoutNamespace(key, err) ==
    <<"could not get kubeconfig secret", key[2], ":">> \o err

\* fmt.Errorf("could not get kubeconfig secret %s/%s: %w", ...)
secretLookupError(key, err) ==
    <<"could not get kubeconfig secret", key[1], "/", key[2], ":">> \o err

\* missingKeyError reporting the failure as a failed lookup.
missingKeyErrorAsLookup(key) ==
    <<"could not get kubeconfig secret", key[1], "/", key[2], ":">>

\* fmt.Errorf("kubeconfig secret %s/%s is missing 'kubeconfig' data key", ...)
missingKeyError(key) ==
    <<"kubeconfig secret", key[1], "/", key[2], "is missing 'kubeconfig' data key">>

\* unsupportedLocationError printing the location in place of its type.
unsupportedLocationErrorNamingLocation(mkCluster) ==
    <<"unsupported kubeconfig location type:", mkCluster.location>>

\* fmt.Errorf("unsupported kubeconfig location type: %s", kubeConfig.LocationType)
unsupportedLocationError(mkCluster) ==
    <<"unsupported kubeconfig location type:", mkCluster.locationType>>

\* getSpokeClusterConfig of the Reconciler rec; fault names the remote get the
\* environment fails,
\* inCluster tells whether the process runs in a pod.
\* calls lists the remote gets and the file load it made.
getSpokeClusterConfig(rec, clusters, secrets, clusterName, fault, inCluster) ==
    LET got == ClientGet(clusters, "multikueueclusters", clusterName, clusterName,
                         fault = "clusters")
        c1 == <<Call("MultiKueueClusters.Get", got.err)>>
    IN  IF got.err # Nil
        THEN [config |-> NoObj, calls |-> c1, err |-> clusterLookupError(clusterName, got.err)]
        ELSE LET kubeConfig == got.obj IN
             CASE kubeConfig.locationType = "Secret" ->
                    LET key == kubeconfigSecretKey(rec, kubeConfig)
                        sec == ClientGet(secrets, "secrets", key, key[2], fault = "secrets")
                        c2 == c1 \o <<Call("KubeconfigSecret.Get", sec.err)>>
                    IN  IF sec.err # Nil
                        THEN [config |-> NoObj, calls |-> c2,
                              err |-> secretLookupError(key, sec.err)]
                        ELSE IF "kubeconfig" \notin DOMAIN sec.obj.data
                        THEN [config |-> NoObj, calls |-> c2, err |-> missingKeyError(key)]
                        ELSE LET parsed == RESTConfigFromKubeConfig(sec.obj.data["kubeconfig"])
                             IN  [config |-> parsed.config, calls |-> c2, err |-> parsed.err]
               [] kubeConfig.locationType = "Path" ->
                    LET built == BuildConfigFromFlags(kubeConfig.location, inCluster)
                    IN  [config |-> built.config,
                         calls |-> c1 \o <<Call("KubeconfigFile.Load", built.err)>>,
                         err |-> built.err]
               [] OTHER ->
                    [config |-> NoObj, calls |-> c1, err |-> unsupportedLocationError(kubeConfig)]

\* validatePLRAndGetSecretName taking every failed get for "not created yet".
validateEveryErrorNotFound(got) ==
    IF got.err # Nil
    THEN [secretName |-> "", pipelineRun |-> NoObj, err |-> Nil]
    ELSE IF got.obj.done
    THEN [secretName |-> "", pipelineRun |-> NoObj, err |-> Nil]
    ELSE IF gitAuthSecret \notin DOMAIN got.obj.annotations
    THEN [secretName |-> "", pipelineRun |-> NoObj, err |-> Nil]
    ELSE [secretName |-> got.obj.annotations[gitAuthSecret], pipelineRun |-> got.obj,
          err |-> Nil]

\* validatePLRAndGetSecretName returning a not-found get as an error.
validateNotFoundAsError(got) ==
    IF got.err # Nil
    THEN [secretName |-> "", pipelineRun |-> NoObj, err |-> got.err]
    ELSE IF got.obj.done
    THEN [secretName |-> "", pipelineRun |-> NoObj, err |-> Nil]
    ELSE IF gitAuthSecret \notin DOMAIN got.obj.annotations
    THEN [secretName |-> "", pipelineRun |-> NoObj, err |-> Nil]
    ELSE [secretName |-> got.obj.annotations[gitAuthSecret], pipelineRun |-> got.obj,
          err |-> Nil]

\* validatePLRAndGetSecretName returning the secret name without the
\* PipelineRun.
validateDroppingRun(got) ==
    IF got.err # Nil
    THEN IF IsNotFound(got.err)
         THEN [secretName |-> "", pipelineRun |-> NoObj, err |-> Nil]
         ELSE [secretName |-> "", pipelineRun |-> NoObj, err |-> got.err]
    ELSE IF got.obj.done
    THEN [secretName |-> "", pipelineRun |-> NoObj, err |-> Nil]
    ELSE IF gitAuthSecret \notin DOMAIN got.obj.annotations
    THEN [secretName |-> "", pipelineRun |-> NoObj, err |-> Nil]
    ELSE [secretName |-> got.obj.annotations[gitAuthSecret], pipelineRun |-> NoObj,
          err |-> Nil]

\* validatePLRAndGetSecretName wrapping the error of the get.
validateWrappingError(got) ==
    IF got.err # Nil
    THEN IF IsNotFound(got.err)
         THEN [secretName |-> "", pipelineRun |-> NoObj, err |-> Nil]
         ELSE [secretName |-> "", pipelineRun |-> NoObj,
               err |-> <<"error getting PipelineRun", ":">> \o got.err]
    ELSE IF got.obj.done
    THEN [secretName |-> "", pipelineRun |-> NoObj, err |-> Nil]
    ELSE IF gitAuthSecret \notin DOMAIN got.obj.annotations
    THEN [secretName |-> "", pipelineRun |-> NoObj, err |-> Nil]
    ELSE [secretName |-> got.obj.annotations[gitAuthSecret], pipelineRun |-> got.obj,
          err |-> Nil]

\* validatePLRAndGetSecretName without the IsDone check.
validateIgnoringDone(got) ==
    IF got.err # Nil
    THEN IF IsNotFound(got.err)
         THEN [secretName |-> "", pipelineRun |-> NoObj, err |-> Nil]
         ELSE [secretName |-> "", pipelineRun |-> NoObj, err |-> got.err]
    ELSE IF gitAuthSecret \notin DOMAIN got.obj.annotations
    THEN [secretName |-> "", pipelineRun |-> NoObj, err |-> Nil]
    ELSE [secretName |-> got.obj.annotations[gitAuthSecret], pipelineRun |-> got.obj,
          err |-> Nil]

\* validatePLRAndGetSecretName, given the outcome `got` of the PipelineRun get
\* on the spoke.
validatePLRAndGetSecretName(got) ==
    IF got.err # Nil
    THEN IF IsNotFound(got.err)
         THEN [secretName |-> "", pipelineRun |-> NoObj, err |-> Nil]
         ELSE [secretName |-> "", pipelineRun |-> NoObj, err |-> got.err]
    ELSE IF got.obj.done
    THEN [secretName |-> "", pipelineRun |-> NoObj, err |-> Nil]
    ELSE IF gitAuthSecret \notin DOMAIN got.obj.annotations
    THEN [secretName |-> "", pipelineRun |-> NoObj, err |-> Nil]
    ELSE [secretName |-> got.obj.annotations[gitAuthSecret], pipelineRun |-> got.obj,
          err |-> Nil]

\* newSecret without the Data field.
newSecretWithoutData(secret, pipelineRun) ==
    Secret(secret.namespace, secret.name, secret.type, NoMap, secret.labels,
           secret.annotations,
           [i \in 1..Len(secret.ownerReferences) |->
               [secret.ownerReferences[i] EXCEPT !.uid = pipelineRun.uid]])

\* newSecret without the owner references.
newSecretWithoutOwners(secret, pipelineRun) ==
    Secret(secret.namespace, secret.name, secret.type, secret.data, secret.labels,
           secret.annotations, <<>>)

\* newSecret without the labels.
newSecretWithoutLabels(secret, pipelineRun) ==
    Secret(secret.namespace, secret.name, secret.type, secret.data, NoMap,
           secret.annotations,
           [i \in 1..Len(secret.ownerReferences) |->
               [secret.ownerReferences[i] EXCEPT !.uid = pipelineRun.uid]])

\* newSecret overriding the UID of the references of kind PipelineRun only.
newSecretRewritingPipelineRunRefsOnly(secret, pipelineRun) ==
    Secret(secret.namespace, secret.name, secret.type, secret.data, secret.labels,
           secret.annotations,
           [i \in 1..Len(secret.ownerReferences) |->
               IF secret.ownerReferences[i].kind = "PipelineRun"
               THEN [secret.ownerReferences[i] EXCEPT !.uid = pipelineRun.uid]
               ELSE secret.ownerReferences[i]])

\* newSecret copying the owner references with the hub's UIDs.
newSecretKeepingUID(secret, pipelineRun) ==
    Secret(secret.namespace, secret.name, secret.type, secret.data, secret.labels,
           secret.annotations, secret.ownerReferences)

\* newSecret placing the secret in the namespace "default".
newSecretInDefaultNamespace(secret, pipelineRun) ==
    Secret("default", secret.name, secret.type, secret.data, secret.labels,
           secret.annotations,
           [i \in 1..Len(secret.ownerReferences) |->
               [secret.ownerReferences[i] EXCEPT !.uid = pipelineRun.uid]])

\* The secret createSecretOnSpokeCluster builds from the hub secret.
newSecret(secret, pipelineRun) ==
    Secret(secret.namespace, secret.name, secret.type, secret.data, secret.labels,
           secret.annotations,
           [i \in 1..Len(secret.ownerReferences) |->
               [secret.ownerReferences[i] EXCEPT !.uid = pipelineRun.uid]])

\* createResult ignoring every failure of the create.
createResultIgnoringErrors(err) == Nil

\* createResult without the IsAlreadyExists exemption.
createResultWithoutExemption(err) == err

\* What createSecretOnSpokeCluster returns for the outcome of the create.
createResult(err) ==
    IF err # Nil /\ ~IsAlreadyExists(err) THEN err ELSE Nil

\* hubGetResult taking a hub secret that is not found for nothing to sync.
hubGetResultSkippingNotFound(err) == IF IsNotFound(err) THEN Nil ELSE err

\* What createSecretOnSpokeCluster returns when the get of the hub secret
\* failed with err.
hubGetResult(err) == err

\* createSecretOnSpokeCluster replacing a secret the create finds on the spoke.
createSecretOnSpokeClusterUpdating(secrets, store, secretName, pipelineRun, fault) ==
    LET got == ClientGet(secrets, "secrets", <<pipelineRun.namespace, secretName>>,
                         secretName, fault = "get")
        c1 == <<Call("HubSecret.Get", got.err)>>
    IN  IF got.err # Nil
        THEN [err |-> got.err, store |-> store, calls |-> c1, submitted |-> NoObj]
        ELSE LET obj == newSecret(got.obj, pipelineRun)
                 made == ClientCreate(store, obj, fault = "create")
                 others == {s \in store : s.namespace # obj.namespace \/ s.name # obj.name}
             IN  [err |-> createResult(made.err),
                  store |-> IF IsAlreadyExists(made.err) THEN others \cup {obj}
                            ELSE made.store,
                  calls |-> c1 \o <<Call("SpokeSecret.Create", made.err)>>,
                  submitted |-> obj]

\* createSecretOnSpokeCluster against the hub secrets and the spoke's secret
\* store; fault names the remote call the environment fails.
createSecretOnSpokeCluster(secrets, store, secretName, pipelineRun, fault) ==
    LET got == ClientGet(secrets, "secrets", <<pipelineRun.namespace, secretName>>,
                         secretName, fault = "get")
        c1 == <<Call("HubSecret.Get", got.err)>>
    IN  IF got.err # Nil
        THEN [err |-> hubGetResult(got.err), store |-> store, calls |-> c1,
              submitted |-> NoObj]
        ELSE LET obj == newSecret(got.obj, pipelineRun)
                 made == ClientCreate(store, obj, fault = "create")
             IN  [err |-> createResult(made.err), store |-> made.store,
                  calls |-> c1 \o <<Call("SpokeSecret.Create", made.err)>>,
                  submitted |-> obj]

----------------------------------------------------------------------------
(* Reconcile, one step per stretch of code between two points where another  *)
(* worker or another actor can act on the spoke                              *)

\* The locals of an invocation that has not started.
Idle ==
    [pc |-> "idle", key |-> <<>>, workload |-> NoObj,
     ownerPipelineRunReference |-> NoObj, spokeClusterConfig |-> NoObj,
     resolved |-> NoObj, validated |-> NoObj,
     secretName |-> "", pipelineRun |-> NoObj, submitted |-> NoObj,
     calls |-> <<>>, rets |-> <<>>, err |-> Nil]

\* return err
Return(r, err) == [r EXCEPT !.pc = "done", !.err = err]

\* malformedKeyResult returning the parse error, so that the key is retried.
malformedKeyResultRetried(err) == err

\* What Reconcile returns for a key SplitMetaNamespaceKey rejects with err.
malformedKeyResult(err) == Nil

\* skipReason testing the cluster name for nil only, not for the empty string.
skipReasonAdmittingEmptyCluster(workload) ==
    IF workload.active # NilPtr /\ ~workload.active[1] THEN "not active"
    ELSE IF workload.clusterName = NilPtr THEN "no cluster name"
    ELSE IF GetControllerOf(workload) = NoObj THEN "no owner PipelineRun"
    ELSE IF GetControllerOf(workload).kind # "PipelineRun" THEN "owner kind"
    ELSE ""

\* skipReason going on for a Workload that has an owner reference of kind
\* PipelineRun, controller or not.
skipReasonTakingAnyPipelineRunOwner(workload) ==
    IF workload.active # NilPtr /\ ~workload.active[1] THEN "not active"
    ELSE IF workload.clusterName = NilPtr \/ workload.clusterName[1] = ""
    THEN "no cluster name"
    ELSE IF GetControllerOf(workload) = NoObj THEN "no owner PipelineRun"
    ELSE IF \A i \in 1..Len(workload.ownerReferences) :
                workload.ownerReferences[i].kind # "PipelineRun"
    THEN "owner kind"
    ELSE ""

\* The gates on the Workload, as Reconcile applies them in order: the reason
\* to skip the Workload, or "" to go on.
skipReason(workload) ==
    IF workload.active # NilPtr /\ ~workload.active[1] THEN "not active"
    ELSE IF workload.clusterName = NilPtr \/ workload.clusterName[1] = ""
    THEN "no cluster name"
    ELSE IF GetControllerOf(workload) = NoObj THEN "no owner PipelineRun"
    ELSE IF GetControllerOf(workload).kind # "PipelineRun" THEN "owner kind"
    ELSE ""

\* listerResult dropping every lister failure.
listerResultDroppingErrors(err) == Nil

\* What Reconcile returns when the lister fails with err.
listerResult(err) == IF IsNotFound(err) THEN Nil ELSE err

\* Reconcile up to the call of getSpokeClusterConfig.
reconcileEnter(key, cache, fault) ==
    LET r == [Idle EXCEPT !.key = key]
        k == SplitMetaNamespaceKey(key)
    IN  IF k.err # Nil THEN Return(r, malformedKeyResult(k.err))
        ELSE LET got == ListerGet(cache, k.namespace, k.name, fault)
                 r1 == [r EXCEPT !.calls = <<Call("WorkloadLister.Get", got.err)>>]
             IN  IF got.err # Nil THEN Return(r1, listerResult(got.err))
                 ELSE LET r2 == [r1 EXCEPT !.workload = got.obj] IN
                      IF skipReason(got.obj) # "" THEN Return(r2, Nil)
                      ELSE [r2 EXCEPT !.pc = "resolve",
                                      !.ownerPipelineRunReference = GetControllerOf(got.obj)]

\* Reconcile from getSpokeClusterConfig to the construction of the spoke
\* clients.  rets collects what each component returned to Reconcile;
\* resolved is the whole return of getSpokeClusterConfig.
reconcileResolve(rec, r, clusters, secrets, fault, inCluster) ==
    LET cfg == getSpokeClusterConfig(rec, clusters, secrets, r.workload.clusterName[1], fault,
                                     inCluster)
        r1 == [r EXCEPT !.calls = @ \o cfg.calls,
                        !.resolved = [config |-> cfg.config, err |-> cfg.err],
                        !.rets = @ \o <<Call("getSpokeClusterConfig", cfg.err)>>]
    IN  IF cfg.err # Nil THEN Return(r1, cfg.err)
        ELSE LET err == NewForConfig(cfg.config)
                 r2 == [r1 EXCEPT !.rets = @ \o <<Call("NewForConfig", err)>>]
             IN  IF err # Nil THEN Return(r2, err)
                 ELSE [r2 EXCEPT !.pc = "validate", !.spokeClusterConfig = cfg.config]

\* afterValidate calling the Syncer whatever secret name the validator returned.
afterValidateCallingSyncer(r, v) ==
    IF v.err # Nil THEN Return(r, v.err)
    ELSE [r EXCEPT !.pc = "sync", !.secretName = v.secretName,
                   !.pipelineRun = v.pipelineRun]

\* What Reconcile does with the validator's return v: the error it returns,
\* or the call of the Syncer.
afterValidate(r, v) ==
    IF v.err # Nil THEN Return(r, v.err)
    ELSE IF v.secretName = "" THEN Return(r, Nil)
    ELSE [r EXCEPT !.pc = "sync", !.secretName = v.secretName,
                   !.pipelineRun = v.pipelineRun]

\* reconcileValidate getting the PipelineRun a second time when the get fails.
reconcileValidateRetrying(r, pipelineRuns, fault) ==
    LET id == <<r.workload.namespace, r.ownerPipelineRunReference.name>>
        first == ClientGet(pipelineRuns, "pipelineruns.tekton.dev", id, id[2], fault)
        got == IF first.err # Nil /\ ~IsNotFound(first.err)
               THEN ClientGet(pipelineRuns, "pipelineruns.tekton.dev", id, id[2], FALSE)
               ELSE first
        v == validatePLRAndGetSecretName(got)
        r1 == [r EXCEPT !.calls = @ \o (IF got = first THEN <<>>
                                         ELSE <<Call("PipelineRuns.Get", first.err)>>)
                                  \o <<Call("PipelineRuns.Get", got.err)>>,
                        !.validated = v,
                        !.rets = @ \o <<Call("validatePLRAndGetSecretName", v.err)>>]
    IN  afterValidate(r1, v)

\* Reconcile's call of validatePLRAndGetSecretName on the spoke's PipelineRuns;
\* validated is what the validator returned.
reconcileValidate(r, pipelineRuns, fault) ==
    LET got == ClientGet(pipelineRuns, "pipelineruns.tekton.dev",
                         <<r.workload.namespace, r.ownerPipelineRunReference.name>>,
                         r.ownerPipelineRunReference.name, fault)
        v == validatePLRAndGetSecretName(got)
        r1 == [r EXCEPT !.calls = @ \o <<Call("PipelineRuns.Get", got.err)>>,
                        !.validated = v,
                        !.rets = @ \o <<Call("validatePLRAndGetSecretName", v.err)>>]
    IN  afterValidate(r1, v)

\* afterSync logging the Syncer's error without returning it.
afterSyncMaskingError(err) == Nil

\* What Reconcile returns after createSecretOnSpokeCluster returned err.
afterSync(err) == IF err # Nil THEN err ELSE Nil

\* Reconcile's call of createSecretOnSpokeCluster.
reconcileSync(r, secrets, store, fault) ==
    LET out == createSecretOnSpokeCluster(secrets, store, r.secretName, r.pipelineRun, fault)
        r1 == [r EXCEPT !.calls = @ \o out.calls, !.submitted = out.submitted,
                        !.rets = @ \o <<Call("createSecretOnSpokeCluster", out.err)>>]
    IN  [inv |-> Return(r1, afterSync(out.err)), store |-> out.store]

----------------------------------------------------------------------------
(* Actions *)

\* os.Getenv: the value of the variable, empty when it is not set.
Getenv(env, name) == IF name \in DOMAIN env THEN env[name] ELSE ""

\* kueueNamespaceOf taking the variable's value as it is.
kueueNamespaceOfWithoutDefault(value) == value

\* The Kueue namespace NewController derives from the value of
\* KUEUE_NAMESPACE.
kueueNamespaceOf(value) == IF value = "" THEN kueueNamespace ELSE value

\* NewController in a process with the environment env.
InitController(env) ==
    /\ environ = env
    /\ reconciler = [kueueNamespace |-> kueueNamespaceOf(Getenv(env, "KUEUE_NAMESPACE"))]

\* The rest of the world at the start.
InitWorld ==
    /\ InitController(NoMap)
    /\ mkClusters = InitMkClusters
    /\ hubSecrets = InitHubSecrets
    /\ spokePipelineRuns = InitSpokePipelineRuns
    /\ spokeSecrets = [h \in Hosts |-> {}]
    /\ queue = {}
    /\ event = NoObj

\* One worker, and a cache holding one Workload, any of WorkloadSet.
Init ==
    /\ InitWorld
    /\ \E wl \in WorkloadSet : workloads = CacheOf({wl})
    /\ inv = [w \in {"w1"} |-> Idle]

\* Two workers, and a cache holding the Workloads that sync a secret.
InitRace ==
    /\ InitWorld
    /\ workloads = CacheOf(SyncingWorkloads)
    /\ inv = [w \in Workers |-> Idle]

Running(w) == inv[w].pc \notin {"idle", "done"}

\* A worker takes a key off the work queue, which never hands a key to two
\* workers at once, and runs Reconcile up to its first remote call.
Enter(w) ==
    /\ ~Running(w)
    /\ \E key \in DOMAIN workloads \cup StrayKeys, fault \in BOOLEAN :
          /\ \A v \in DOMAIN inv \ {w} : Running(v) => inv[v].key # key
          /\ inv' = [inv EXCEPT ![w] = reconcileEnter(key, workloads, fault)]
    /\ UNCHANGED <<workloads, mkClusters, hubSecrets, spokePipelineRuns, spokeSecrets, queue,
                   event, environ, reconciler>>

Resolve(w) ==
    /\ inv[w].pc = "resolve"
    /\ \E fault \in {"none", "clusters", "secrets"}, inCluster \in BOOLEAN :
          inv' = [inv EXCEPT ![w] =
                     reconcileResolve(reconciler, inv[w], mkClusters, hubSecrets, fault,
                                      inCluster)]
    /\ UNCHANGED <<workloads, mkClusters, hubSecrets, spokePipelineRuns, spokeSecrets, queue,
                   event, environ, reconciler>>

Validate(w) ==
    /\ inv[w].pc = "validate"
    /\ \E fault \in BOOLEAN :
          inv' = [inv EXCEPT ![w] =
                     reconcileValidate(inv[w], spokePipelineRuns[inv[w].spokeClusterConfig.Host],
                                       fault)]
    /\ UNCHANGED <<workloads, mkClusters, hubSecrets, spokePipelineRuns, spokeSecrets, queue,
                   event, environ, reconciler>>

Sync(w) ==
    /\ inv[w].pc = "sync"
    /\ \E fault \in {"none", "get", "create"} :
          LET host == inv[w].spokeClusterConfig.Host
              out == reconcileSync(inv[w], hubSecrets, spokeSecrets[host], fault)
          IN  /\ inv' = [inv EXCEPT ![w] = out.inv]
              /\ spokeSecrets' = [spokeSecrets EXCEPT ![host] = out.store]
    /\ UNCHANGED <<workloads, mkClusters, hubSecrets, spokePipelineRuns, queue, event,
                   environ, reconciler>>

\* The pipeline system creates the PipelineRun ns/plr-1 on cluster-a.
PipelineRunCreated ==
    /\ <<Plr1.namespace, Plr1.name>> \notin DOMAIN spokePipelineRuns[HostA]
    /\ spokePipelineRuns' =
          [spokePipelineRuns EXCEPT ![HostA] = @ @@ (<<Plr1.namespace, Plr1.name>> :> Plr1)]
    /\ UNCHANGED <<workloads, mkClusters, hubSecrets, spokeSecrets, inv, queue, event,
                   environ, reconciler>>

\* Another actor creates a secret on a spoke.
OtherActorCreate ==
    /\ \E h \in Hosts : \E s \in ForeignSecrets[h] :
          /\ ClientCreate(spokeSecrets[h], s, FALSE).err = Nil
          /\ spokeSecrets' = [spokeSecrets EXCEPT ![h] = ClientCreate(@, s, FALSE).store]
    /\ UNCHANGED <<workloads, mkClusters, hubSecrets, spokePipelineRuns, inv, queue, event,
                   environ, reconciler>>

Next ==
    \/ \E w \in DOMAIN inv : Enter(w)
    \/ \E w \in DOMAIN inv : Resolve(w)
    \/ \E w \in DOMAIN inv : Validate(w)
    \/ \E w \in DOMAIN inv : Sync(w)
    \/ PipelineRunCreated
    \/ OtherActorCreate

Spec == Init /\ [][Next]_vars

SpecRace == InitRace /\ [][Next]_vars

\* The function f without the arguments of the set gone.
Without(f, gone) == [x \in DOMAIN f \ gone |-> f[x]]

\* One in-scope Workload for each cluster name that is or could be registered.
ResolverWorkloads ==
    {Workload("ns", "unset." \o c \o ".plr-2", NilPtr, <<c>>, OwnerShapes["plr-2"]) :
        c \in DOMAIN InitMkClusters \cup {"cluster-x"}}

\* The credential secrets of the hub's Kueue namespace.
KubeconfigSecretKeys == {k \in DOMAIN InitHubSecrets : k[1] = kueueNamespace}

\* One worker, a cache holding one in-scope Workload, and a hub that lacks
\* some registrations and some credential secrets.
InitResolver ==
    /\ InitController(NoMap)
    /\ \E gone \in SUBSET DOMAIN InitMkClusters :
          /\ Cardinality(gone) <= MaxUnregistered
          /\ mkClusters = Without(InitMkClusters, gone)
    /\ \E gone \in SUBSET KubeconfigSecretKeys :
          /\ Cardinality(gone) <= MaxMissingSecrets
          /\ hubSecrets = Without(InitHubSecrets, gone)
    /\ spokePipelineRuns = InitSpokePipelineRuns
    /\ spokeSecrets = [h \in Hosts |-> {}]
    /\ queue = {}
    /\ event = NoObj
    /\ \E wl \in ResolverWorkloads : workloads = CacheOf({wl})
    /\ inv = [w \in {"w1"} |-> Idle]

\* Reconcile up to the construction of the spoke clients.
NextResolver ==
    \/ \E w \in DOMAIN inv : Enter(w)
    \/ \E w \in DOMAIN inv : Resolve(w)

SpecResolver == InitResolver /\ [][NextResolver]_vars

\* The environments the controller may be started in: KUEUE_NAMESPACE not
\* set, set to the empty string, and set to a namespace.
Environments ==
    {NoMap, "KUEUE_NAMESPACE" :> "", "KUEUE_NAMESPACE" :> "custom-kueue"}

\* A hub whose namespace custom-kueue holds credential secrets as well, under
\* the names of the default namespace but with the payloads of the other
\* cluster.
EnvHubSecrets ==
    LET K(n, payload) ==
            <<"custom-kueue", n>> :>
                Secret("custom-kueue", n, "Opaque", payload, NoMap, NoMap, <<>>)
    IN  InitHubSecrets
     @@ K("kubeconfig-a", "kubeconfig" :> KubeConfig(HostB, "ok"))
     @@ K("kubeconfig-b", "kubeconfig" :> KubeConfig(HostA, "ok"))
     @@ K("kubeconfig-absent", "kubeconfig" :> KubeConfig(HostA, "ok"))

\* NewController in any of the environments, one worker, and a cache holding
\* one in-scope Workload.
InitEnv ==
    /\ \E env \in Environments : InitController(env)
    /\ mkClusters = InitMkClusters
    /\ hubSecrets = EnvHubSecrets
    /\ spokePipelineRuns = InitSpokePipelineRuns
    /\ spokeSecrets = [h \in Hosts |-> {}]
    /\ queue = {}
    /\ event = NoObj
    /\ \E wl \in ResolverWorkloads : workloads = CacheOf({wl})
    /\ inv = [w \in {"w1"} |-> Idle]

SpecEnv == InitEnv /\ [][NextResolver]_vars

\* The Workloads of the cache the event handler is fed from, all on cluster-a:
\* owned by PipelineRun plr-1, by a Job, by two PipelineRuns, by a Job with a
\* PipelineRun as a further owner, and by nothing.
QueueWorkloads ==
    LET W(n, owners) == Workload("ns", n, NilPtr, <<"cluster-a">>, owners)
    IN  {W("wl-plr-1", <<Ctrl("PipelineRun", "plr-1")>>),
         W("wl-job", <<Ctrl("Job", "job-1")>>),
         W("wl-two-runs", <<NonCtrl("PipelineRun", "plr-3"), Ctrl("PipelineRun", "plr-6")>>),
         W("wl-nonctrl", <<Ctrl("Job", "job-1"), NonCtrl("PipelineRun", "plr-2")>>),
         W("wl-noowner", <<>>),
         Workload("ns2", "wl-plr-1", NilPtr, <<"cluster-b">>, <<Ctrl("PipelineRun", "plr-1")>>)}

\* What the informer may hand to the event handler: a cached Workload (added
\* or updated), the tombstone of a deleted one, or a tombstone that holds no
\* object.
Tombstone(obj) == [kind |-> "DeletedFinalStateUnknown", obj |-> obj]
EventObjects(cache) ==
    {cache[k] : k \in DOMAIN cache} \cup {Tombstone(cache[k]) : k \in DOMAIN cache}
        \cup {Tombstone(NoObj)}

\* kmeta.DeletionHandlingAccessor: the object of the event, taken out of its
\* tombstone.
DeletionHandlingAccessor(obj) ==
    LET inner == IF obj.kind = "DeletedFinalStateUnknown" THEN obj.obj ELSE obj
    IN  IF inner.kind = "none"
        THEN [object |-> NoObj, err |-> <<"object does not implement the accessor interfaces">>]
        ELSE [object |-> inner, err |-> Nil]

\* checkOwnerAndEnqueue going on through the owner references after a match.
checkOwnerAndEnqueueWithoutReturn(obj) ==
    LET a == DeletionHandlingAccessor(obj) IN
    IF a.err # Nil THEN <<>>
    ELSE LET refs == a.object.ownerReferences
             hits == {i \in 1..Len(refs) : refs[i].kind = "PipelineRun"}
         IN  [i \in 1..Cardinality(hits) |-> KeyOf(a.object)]

\* checkOwnerAndEnqueue enqueueing every Workload.
checkOwnerAndEnqueueEveryObject(obj) ==
    LET a == DeletionHandlingAccessor(obj) IN
    IF a.err # Nil THEN <<>> ELSE <<KeyOf(a.object)>>

\* checkOwnerAndEnqueue: the keys the handler passes to impl.EnqueueKey for the
\* event object, in order.
checkOwnerAndEnqueue(obj) ==
    LET a == DeletionHandlingAccessor(obj) IN
    IF a.err # Nil THEN <<>>
    ELSE LET refs == a.object.ownerReferences
             hits == {i \in 1..Len(refs) : refs[i].kind = "PipelineRun"}
         IN  IF hits = {} THEN <<>> ELSE <<KeyOf(a.object)>>

\* One worker, the cache of QueueWorkloads and an empty work queue.
InitQueue ==
    /\ InitWorld
    /\ workloads = CacheOf(QueueWorkloads)
    /\ inv = [w \in {"w1"} |-> Idle]

\* The informer delivers an event and the handler enqueues for it.
Observe ==
    /\ \E obj \in EventObjects(workloads) :
          LET keys == checkOwnerAndEnqueue(obj) IN
          /\ queue' = queue \cup {keys[i] : i \in 1..Len(keys)}
          /\ event' = [obj |-> obj, enqueued |-> keys]
    /\ UNCHANGED <<workloads, mkClusters, hubSecrets, spokePipelineRuns, spokeSecrets, inv,
                   environ, reconciler>>

\* A worker takes a key off the work queue and runs Reconcile up to its first
\* remote call.
Dequeue(w) ==
    /\ inv[w].pc = "idle"
    /\ \E key \in queue, fault \in BOOLEAN :
          /\ queue' = queue \ {key}
          /\ inv' = [inv EXCEPT ![w] = reconcileEnter(key, workloads, fault)]
    /\ UNCHANGED <<workloads, mkClusters, hubSecrets, spokePipelineRuns, spokeSecrets, event,
                   environ, reconciler>>

\* The work queue takes Reconcile's return: a key whose Reconcile returned an
\* error is added again, after its back-off; the worker is free.
Finish(w) ==
    /\ inv[w].pc = "done"
    /\ queue' = IF inv[w].err # Nil THEN queue \cup {inv[w].key} ELSE queue
    /\ inv' = [inv EXCEPT ![w] = Idle]
    /\ UNCHANGED <<workloads, mkClusters, hubSecrets, spokePipelineRuns, spokeSecrets, event,
                   environ, reconciler>>

NextQueue ==
    \/ Observe
    \/ \E w \in DOMAIN inv : Dequeue(w)
    \/ \E w \in DOMAIN inv : Resolve(w)
    \/ \E w \in DOMAIN inv : Validate(w)
    \/ \E w \in DOMAIN inv : Sync(w)
    \/ \E w \in DOMAIN inv : Finish(w)
    \/ PipelineRunCreated

SpecQueue == InitQueue /\ [][NextQueue]_vars

\* The controller after its start: the informer has listed the hub's Workloads
\* and handed each to the event handler as an add event, so the work queue
\* holds the keys the handler enqueued for them.
InitFair ==
    /\ InitController(NoMap)
    /\ mkClusters = InitMkClusters
    /\ hubSecrets = InitHubSecrets
    /\ spokePipelineRuns = InitSpokePipelineRuns
    /\ spokeSecrets = [h \in Hosts |-> {}]
    /\ workloads = CacheOf(QueueWorkloads)
    /\ queue = UNION {{checkOwnerAndEnqueue(wl)[i] : i \in 1..Len(checkOwnerAndEnqueue(wl))} :
                          wl \in QueueWorkloads}
    /\ event = NoObj
    /\ inv = [w \in {"w1"} |-> Idle]

\* The API servers have answered every call of the worker's invocation after
\* the step: each returned an object, not-found or already-exists.
AnsweredStep(w) ==
    \A i \in 1..Len(inv'[w].calls) :
        \/ inv'[w].calls[i].err = Nil
        \/ IsNotFound(inv'[w].calls[i].err)
        \/ IsAlreadyExists(inv'[w].calls[i].err)

\* The worker takes that key off the work queue.
DequeueKey(w, key) == Dequeue(w) /\ inv'[w].key = key /\ AnsweredStep(w)

\* The keys the event handler enqueues.
QueueKeys == {KeyOf(wl) : wl \in {x \in QueueWorkloads : checkOwnerAndEnqueue(x) # <<>>}}

\* The controller on a hub and spokes whose API servers answer every call.
NextFair ==
    \/ Observe
    \/ \E w \in DOMAIN inv, key \in QueueKeys : DequeueKey(w, key)
    \/ \E w \in DOMAIN inv : Resolve(w) /\ AnsweredStep(w)
    \/ \E w \in DOMAIN inv : Validate(w) /\ AnsweredStep(w)
    \/ \E w \in DOMAIN inv : Sync(w) /\ AnsweredStep(w)
    \/ \E w \in DOMAIN inv : Finish(w)
    \/ PipelineRunCreated

\* The work queue is processed fairly: a queued key is handed to the worker
\* however often other keys come back, the worker's invocation goes on, and
\* the queue takes every return. The pipeline system creates the PipelineRun.
\* Nothing obliges the informer to deliver a further event: it has no resync
\* period, and a Workload that stays as it is raises none.
Fairness ==
    /\ \A key \in QueueKeys : SF_vars(DequeueKey("w1", key))
    /\ WF_vars(Resolve("w1") /\ AnsweredStep("w1"))
    /\ WF_vars(Validate("w1") /\ AnsweredStep("w1"))
    /\ WF_vars(Sync("w1") /\ AnsweredStep("w1"))
    /\ WF_vars(Finish("w1"))
    /\ WF_vars(PipelineRunCreated)

SpecFair == InitFair /\ [][NextFair]_vars /\ Fairness

----------------------------------------------------------------------------
(* Vocabulary of the properties *)

Done(w) == inv[w].pc = "done"

\* The positions in the invocation's call log of the calls of operation op.
CallsOf(w, op) == {i \in 1..Len(inv[w].calls) : inv[w].calls[i].op = op}
Issued(w, op) == CallsOf(w, op) # {}
ErrOf(w, op) == inv[w].calls[CHOOSE i \in CallsOf(w, op) : TRUE].err

RemoteOps ==
    {"MultiKueueClusters.Get", "KubeconfigSecret.Get", "PipelineRuns.Get", "HubSecret.Get",
     "SpokeSecret.Create"}
NoRemoteCall(w) == \A op \in RemoteOps : ~Issued(w, op)

\* What the named component returned to Reconcile in this invocation.
Returned(w, component) == {c \in {inv[w].rets[i] : i \in 1..Len(inv[w].rets)} : c.op = component}

\* The secrets of that namespace and name on the spoke at host h.
SecretsAt(h, namespace, name) ==
    {s \in spokeSecrets[h] : s.namespace = namespace /\ s.name = name}

ControllerRefs(wl) ==
    {wl.ownerReferences[i] : i \in {j \in 1..Len(wl.ownerReferences) : wl.ownerReferences[j].controller}}

\* The Workload is active or unset, scheduled to a named cluster and
\* controller-owned by a PipelineRun.
InScope(wl) ==
    /\ wl.active # <<FALSE>>
    /\ wl.clusterName \notin {NilPtr, <<"">>}
    /\ \E ref \in ControllerRefs(wl) : ref.kind = "PipelineRun"

HostOf(w) == inv[w].spokeClusterConfig.Host

\* The PipelineRun get of the invocation returned the PipelineRun that owns the
\* Workload, and it is not done and names a secret the hub holds.
OwnerRunNamesHubSecret(w) ==
    LET wl == inv[w].workload IN
    /\ Issued(w, "PipelineRuns.Get") /\ ErrOf(w, "PipelineRuns.Get") = Nil
    /\ \E ref \in ControllerRefs(wl) :
          LET plr == spokePipelineRuns[HostOf(w)][<<wl.namespace, ref.name>>] IN
          /\ ~plr.done
          /\ gitAuthSecret \in DOMAIN plr.annotations
          /\ plr.annotations[gitAuthSecret] # ""
          /\ <<wl.namespace, plr.annotations[gitAuthSecret]>> \in DOMAIN hubSecrets
          /\ inv[w].secretName = plr.annotations[gitAuthSecret]

\* The case of the success path: a finished invocation on an in-scope
\* Workload whose cluster resolved to a connection and whose PipelineRun names
\* a hub secret.
SyncCase(w) ==
    /\ Done(w)
    /\ inv[w].workload # NoObj
    /\ InScope(inv[w].workload)
    /\ inv[w].spokeClusterConfig # NoObj
    /\ OwnerRunNamesHubSecret(w)

\* The hub secret the invocation is to sync.
HubSecretOf(w) == hubSecrets[<<inv[w].workload.namespace, inv[w].secretName>>]

SyncedSecrets(w) == SecretsAt(HostOf(w), inv[w].workload.namespace, inv[w].secretName)

----------------------------------------------------------------------------
(* Properties *)

\* Every remote call of the invocation was answered: none failed, but for a
\* create that met an existing secret.
Answered(w) ==
    \A i \in 1..Len(inv[w].calls) :
        inv[w].calls[i].err = Nil \/ IsAlreadyExists(inv[w].calls[i].err)

\* C1, as claimed (and with every remote call answered): in the success case
\* Reconcile returns nil and the spoke holds a secret of that namespace and
\* name with the hub secret's payload.
C1_SuccessPathAsClaimed ==
    \A w \in DOMAIN inv :
        (SyncCase(w) /\ Answered(w)) =>
            /\ inv[w].err = Nil
            /\ \E s \in SyncedSecrets(w) : s.data = HubSecretOf(w).data

\* C1, amended: in the success case, when no remote call of the invocation
\* fails other than the create reporting already-exists, Reconcile returns nil
\* and the spoke holds a secret of that namespace and name; the secret has the
\* hub secret's payload when the create of this invocation made it.
C1_SuccessPath ==
    \A w \in DOMAIN inv :
        (SyncCase(w) /\ Answered(w)) =>
            /\ inv[w].err = Nil
            /\ SyncedSecrets(w) # {}
            /\ Issued(w, "SpokeSecret.Create")
            /\ ErrOf(w, "SpokeSecret.Create") = Nil =>
                  \E s \in SyncedSecrets(w) : s.data = HubSecretOf(w).data

C1_Witness ==
    \E w \in DOMAIN inv :
        /\ SyncCase(w)
        /\ inv[w].err = Nil
        /\ Issued(w, "SpokeSecret.Create") /\ ErrOf(w, "SpokeSecret.Create") = Nil
        /\ \E s \in SyncedSecrets(w) : s.data = HubSecretOf(w).data /\ s.data # NoMap

\* C2: when the PipelineRun get fails with an error other than not-found,
\* Reconcile returns a non-nil error and the invocation issues no create on
\* the spoke.
C2_FetchFailureNoCreate ==
    \A w \in DOMAIN inv :
        (/\ Done(w)
         /\ Issued(w, "PipelineRuns.Get")
         /\ ErrOf(w, "PipelineRuns.Get") # Nil
         /\ ~IsNotFound(ErrOf(w, "PipelineRuns.Get")))
        =>  /\ inv[w].err # Nil
            /\ ~Issued(w, "SpokeSecret.Create")
            /\ ~Issued(w, "HubSecret.Get")
            /\ inv[w].submitted = NoObj

C2_Witness ==
    \E w \in DOMAIN inv :
        /\ Done(w)
        /\ Issued(w, "PipelineRuns.Get")
        /\ ErrOf(w, "PipelineRuns.Get") = ErrForbidden("pipelineruns.tekton.dev", "plr-1")
        /\ inv[w].err # Nil

\* Invocation w created the secret and invocation v, with the same secret
\* name, PipelineRun and spoke, met it: the Syncer called twice in sequence.
SyncedTwice(w, v) ==
    /\ w # v /\ Done(w) /\ Done(v)
    /\ Issued(w, "SpokeSecret.Create") /\ ErrOf(w, "SpokeSecret.Create") = Nil
    /\ Issued(v, "SpokeSecret.Create") /\ IsAlreadyExists(ErrOf(v, "SpokeSecret.Create"))
    /\ inv[w].secretName = inv[v].secretName
    /\ inv[w].pipelineRun = inv[v].pipelineRun
    /\ HostOf(w) = HostOf(v)

\* C3: the Syncer called twice in sequence with the same inputs returns nil
\* both times and leaves exactly one secret of that namespace and name on the
\* spoke, all of whose owner references carry the spoke PipelineRun's UID.
C3_SyncerIdempotent ==
    \A w, v \in DOMAIN inv :
        SyncedTwice(w, v) =>
            /\ Returned(w, "createSecretOnSpokeCluster") = {Call("createSecretOnSpokeCluster", Nil)}
            /\ Returned(v, "createSecretOnSpokeCluster") = {Call("createSecretOnSpokeCluster", Nil)}
            /\ Cardinality(SecretsAt(HostOf(w), inv[w].pipelineRun.namespace, inv[w].secretName)) = 1
            /\ \A s \in SecretsAt(HostOf(w), inv[w].pipelineRun.namespace, inv[w].secretName) :
                  \A i \in 1..Len(s.ownerReferences) :
                      s.ownerReferences[i].uid = inv[w].pipelineRun.uid

C3_Witness ==
    \E w, v \in DOMAIN inv :
        /\ SyncedTwice(w, v)
        /\ \E s \in SecretsAt(HostOf(w), inv[w].pipelineRun.namespace, inv[w].secretName) :
              /\ Len(s.ownerReferences) > 0
              /\ s.ownerReferences[1].uid = inv[w].pipelineRun.uid

\* C4: a create that fails with already-exists makes the Syncer and Reconcile
\* return nil; a create that fails otherwise makes the Syncer return that
\* error and Reconcile return a non-nil error.
C4_CreateOutcome ==
    \A w \in DOMAIN inv :
        (Done(w) /\ Issued(w, "SpokeSecret.Create")) =>
            LET err == ErrOf(w, "SpokeSecret.Create") IN
            /\ IsAlreadyExists(err) =>
                  /\ Returned(w, "createSecretOnSpokeCluster") = {Call("createSecretOnSpokeCluster", Nil)}
                  /\ inv[w].err = Nil
            /\ (err # Nil /\ ~IsAlreadyExists(err)) =>
                  /\ Returned(w, "createSecretOnSpokeCluster") = {Call("createSecretOnSpokeCluster", err)}
                  /\ inv[w].err # Nil

C4_Witness ==
    \E w \in DOMAIN inv :
        /\ Done(w) /\ Issued(w, "SpokeSecret.Create")
        /\ ErrOf(w, "SpokeSecret.Create") = ErrForbidden("secrets", "git-creds")
        /\ inv[w].err = ErrForbidden("secrets", "git-creds")

\* C5: whenever invocations and other actors race to create one secret
\* identity on a spoke, every invocation whose create succeeded or met
\* already-exists returns nil, and the spoke holds one secret of that identity.
C5_AlreadyExistsRace ==
    /\ \A h \in Hosts : \A s, t \in spokeSecrets[h] :
          (s.namespace = t.namespace /\ s.name = t.name) => s = t
    /\ \A w \in DOMAIN inv :
          (/\ Done(w) /\ Issued(w, "SpokeSecret.Create")
           /\ (ErrOf(w, "SpokeSecret.Create") = Nil
               \/ IsAlreadyExists(ErrOf(w, "SpokeSecret.Create"))))
          =>  /\ inv[w].err = Nil
              /\ Cardinality(SecretsAt(HostOf(w), inv[w].submitted.namespace,
                                       inv[w].submitted.name)) = 1

\* Two invocations for different Workloads and PipelineRuns tried to create
\* the same secret identity; one made it, the other met it.
C5_Witness ==
    \E w, v \in DOMAIN inv :
        /\ w # v /\ Done(w) /\ Done(v)
        /\ Issued(w, "SpokeSecret.Create") /\ ErrOf(w, "SpokeSecret.Create") = Nil
        /\ Issued(v, "SpokeSecret.Create") /\ IsAlreadyExists(ErrOf(v, "SpokeSecret.Create"))
        /\ inv[w].key # inv[v].key
        /\ inv[w].pipelineRun # inv[v].pipelineRun
        /\ HostOf(w) = HostOf(v)
        /\ inv[w].submitted.namespace = inv[v].submitted.namespace
        /\ inv[w].submitted.name = inv[v].submitted.name
        /\ inv[w].err = Nil /\ inv[v].err = Nil

\* C6: for a Workload that is explicitly inactive, or has no or an empty
\* cluster name, or has no controller owner, or a controller owner of another
\* kind than PipelineRun, Reconcile returns nil and issues no remote call.
C6_Gating ==
    \A w \in DOMAIN inv :
        (Done(w) /\ inv[w].workload # NoObj /\ ~InScope(inv[w].workload)) =>
            /\ inv[w].err = Nil
            /\ NoRemoteCall(w)

C6_Witness ==
    \E w \in DOMAIN inv :
        /\ Done(w) /\ inv[w].workload # NoObj
        /\ inv[w].workload.active = <<FALSE>>
        /\ inv[w].workload.clusterName = <<"cluster-a">>
        /\ \E ref \in ControllerRefs(inv[w].workload) : ref.kind = "PipelineRun"
        /\ inv[w].err = Nil /\ NoRemoteCall(w)

\* C7: whenever the Cluster Config Resolver, the client construction, the
\* Pipeline Validator or the Secret Syncer returned an error to Reconcile,
\* Reconcile returned that error, never nil.
C7_ErrorPropagation ==
    \A w \in DOMAIN inv :
        Done(w) =>
            \A i \in 1..Len(inv[w].rets) :
                inv[w].rets[i].err # Nil =>
                    /\ inv[w].err # Nil
                    /\ inv[w].err = inv[w].rets[i].err

C7_Witness ==
    \E w \in DOMAIN inv :
        /\ Done(w)
        /\ \E c \in Returned(w, "NewForConfig") : c.err # Nil /\ inv[w].err = c.err

\* The place of each operation in the sequence of an invocation.
Rank(op) ==
    CASE op = "WorkloadLister.Get" -> 0
      [] op = "MultiKueueClusters.Get" -> 1
      [] op = "KubeconfigSecret.Get" -> 2
      [] op = "KubeconfigFile.Load" -> 2
      [] op = "PipelineRuns.Get" -> 3
      [] op = "HubSecret.Get" -> 4
      [] op = "SpokeSecret.Create" -> 5

\* C8: in every invocation the calls are issued in the order cluster
\* registration, PipelineRun, hub secret, create, each only after every
\* earlier call succeeded; a create is issued only with the cluster config
\* resolved, the PipelineRun found not done and annotated, and the hub secret
\* read.
C8_StrictSequence ==
    \A w \in DOMAIN inv :
        LET calls == inv[w].calls IN
        /\ \A i, j \in 1..Len(calls) : i < j =>
              /\ Rank(calls[i].op) < Rank(calls[j].op)
              /\ calls[i].err = Nil
        /\ Issued(w, "PipelineRuns.Get") => Issued(w, "MultiKueueClusters.Get")
        /\ Issued(w, "HubSecret.Get") => Issued(w, "PipelineRuns.Get")
        /\ Issued(w, "SpokeSecret.Create") => Issued(w, "HubSecret.Get")
        /\ Issued(w, "SpokeSecret.Create") =>
              /\ inv[w].spokeClusterConfig # NoObj
              /\ inv[w].pipelineRun # NoObj
              /\ ~inv[w].pipelineRun.done
              /\ gitAuthSecret \in DOMAIN inv[w].pipelineRun.annotations
              /\ ErrOf(w, "PipelineRuns.Get") = Nil
              /\ ErrOf(w, "HubSecret.Get") = Nil

C8_Witness ==
    \E w \in DOMAIN inv :
        /\ Done(w)
        /\ [i \in 1..Len(inv[w].calls) |-> inv[w].calls[i].op] =
              <<"WorkloadLister.Get", "MultiKueueClusters.Get", "KubeconfigSecret.Get",
                "PipelineRuns.Get", "HubSecret.Get", "SpokeSecret.Create">>

\* C9: for a key that is not "name" or "namespace/name" Reconcile returns nil
\* without a Workload lookup and without a remote call.
C9_MalformedKeyDropped ==
    \A w \in DOMAIN inv :
        (Done(w) /\ Len(inv[w].key) > 2) =>
            /\ inv[w].err = Nil
            /\ inv[w].calls = <<>>
            /\ inv[w].workload = NoObj

C9_Witness ==
    \E w \in DOMAIN inv :
        Done(w) /\ inv[w].key = <<"ns", "a", "b">> /\ inv[w].err = Nil /\ inv[w].calls = <<>>

\* C10: when the Workload lookup fails, Reconcile does nothing further; it
\* returns nil if the Workload was not found and the lookup's error otherwise.
C10_WorkloadLookup ==
    \A w \in DOMAIN inv :
        (Done(w) /\ Issued(w, "WorkloadLister.Get") /\ ErrOf(w, "WorkloadLister.Get") # Nil) =>
            /\ Len(inv[w].calls) = 1
            /\ inv[w].workload = NoObj
            /\ IsNotFound(ErrOf(w, "WorkloadLister.Get")) => inv[w].err = Nil
            /\ ~IsNotFound(ErrOf(w, "WorkloadLister.Get")) =>
                  inv[w].err = ErrOf(w, "WorkloadLister.Get")

C10_Witness ==
    \E w \in DOMAIN inv :
        /\ Done(w)
        /\ inv[w].key = <<"ns", "deleted">>
        /\ ErrOf(w, "WorkloadLister.Get") = ErrNotFound("workloads", "deleted")
        /\ inv[w].err = Nil

\* The invocation called the validator.
Validated(w) == inv[w].validated # NoObj

\* The validator's return for "nothing to sync".
NothingToSync == [secretName |-> "", pipelineRun |-> NoObj, err |-> Nil]

\* C11: when the PipelineRun get on the spoke answers not-found, the validator
\* returns an empty secret name, no PipelineRun and no error, and Reconcile
\* returns nil having neither read the hub secret nor created anything on the
\* spoke.
C11_PipelineRunNotFound ==
    \A w \in DOMAIN inv :
        Validated(w) /\ IsNotFound(ErrOf(w, "PipelineRuns.Get")) =>
            /\ inv[w].validated = NothingToSync
            /\ Done(w)
            /\ inv[w].err = Nil
            /\ ~Issued(w, "HubSecret.Get")
            /\ ~Issued(w, "SpokeSecret.Create")
            /\ Returned(w, "createSecretOnSpokeCluster") = {}

C11_Witness ==
    \E w \in DOMAIN inv :
        /\ Done(w)
        /\ inv[w].key = <<"ns", "active.cluster-a.plr-1">>
        /\ Validated(w)
        /\ ErrOf(w, "PipelineRuns.Get") = ErrNotFound("pipelineruns.tekton.dev", "plr-1")
        /\ inv[w].err = Nil

\* The PipelineRun get of the invocation returned a PipelineRun.
Fetched(w) == Validated(w) /\ ErrOf(w, "PipelineRuns.Get") = Nil

\* The PipelineRun that get returned: the one of the Workload's namespace and
\* the controller owner's name on the spoke.
FetchedRun(w) ==
    spokePipelineRuns[HostOf(w)][<<inv[w].workload.namespace,
                                   inv[w].ownerPipelineRunReference.name>>]

\* C12: for a PipelineRun that is done, with or without the annotation, the
\* validator returns an empty secret name and no error, and the invocation
\* creates no secret on the spoke.
C12_DoneRunSkipped ==
    \A w \in DOMAIN inv :
        Fetched(w) /\ FetchedRun(w).done =>
            /\ inv[w].validated.secretName = ""
            /\ inv[w].validated.err = Nil
            /\ Done(w)
            /\ inv[w].err = Nil
            /\ ~Issued(w, "SpokeSecret.Create")
            /\ inv[w].submitted = NoObj

C12_Witness ==
    \E w \in DOMAIN inv :
        /\ Done(w)
        /\ Fetched(w)
        /\ FetchedRun(w).done
        /\ FetchedRun(w).annotations = (gitAuthSecret :> "git-creds")
        /\ inv[w].validated.secretName = ""

\* The done PipelineRun without the annotation.
C12_WitnessUnannotated ==
    \E w \in DOMAIN inv :
        /\ Done(w)
        /\ Fetched(w)
        /\ FetchedRun(w).done
        /\ gitAuthSecret \notin DOMAIN FetchedRun(w).annotations
        /\ inv[w].validated.secretName = ""

\* C13: for a PipelineRun that is not done and lacks the git-auth-secret
\* annotation, the validator returns an empty secret name and no error, and
\* Reconcile returns nil without calling the Syncer.
C13_UnannotatedRunSkipped ==
    \A w \in DOMAIN inv :
        /\ Fetched(w)
        /\ ~FetchedRun(w).done
        /\ gitAuthSecret \notin DOMAIN FetchedRun(w).annotations
        => /\ inv[w].validated.secretName = ""
           /\ inv[w].validated.err = Nil
           /\ Done(w)
           /\ inv[w].err = Nil
           /\ Returned(w, "createSecretOnSpokeCluster") = {}
           /\ ~Issued(w, "HubSecret.Get")
           /\ ~Issued(w, "SpokeSecret.Create")

C13_Witness ==
    \E w \in DOMAIN inv :
        /\ Done(w)
        /\ Fetched(w)
        /\ FetchedRun(w) = PipelineRun("ns", "plr-3", "spoke-uid-plr-3", NoMap, FALSE)
        /\ inv[w].validated = NothingToSync
        /\ inv[w].err = Nil

\* C14: for a PipelineRun that exists on the spoke, is not done and carries
\* the git-auth-secret annotation, the validator returns the annotation's
\* value as the secret name, together with that PipelineRun and no error.
C14_AnnotatedRunValidated ==
    \A w \in DOMAIN inv :
        /\ Fetched(w)
        /\ ~FetchedRun(w).done
        /\ gitAuthSecret \in DOMAIN FetchedRun(w).annotations
        => inv[w].validated =
               [secretName |-> FetchedRun(w).annotations[gitAuthSecret],
                pipelineRun |-> FetchedRun(w), err |-> Nil]

C14_Witness ==
    \E w \in DOMAIN inv :
        /\ Fetched(w)
        /\ FetchedRun(w).name = "plr-2"
        /\ inv[w].validated.secretName = "git-creds"
        /\ inv[w].validated.pipelineRun =
              PipelineRun("ns", "plr-2", "spoke-uid-plr-2", gitAuthSecret :> "git-creds", FALSE)
        /\ inv[w].validated.err = Nil

\* The error's text holds the token.
Mentions(err, token) == \E i \in 1..Len(err) : err[i] = token

\* The PipelineRun get of the invocation failed, and not with not-found.
FetchFailed(w) ==
    /\ Validated(w)
    /\ ErrOf(w, "PipelineRuns.Get") # Nil
    /\ ~IsNotFound(ErrOf(w, "PipelineRuns.Get"))

\* C15, as claimed: when the PipelineRun get fails with an error other than
\* not-found, the validator returns an error that wraps it with context
\* naming the PipelineRun's namespace, its name and the cluster.
C15_FetchErrorWrappedAsClaimed ==
    \A w \in DOMAIN inv :
        FetchFailed(w) =>
            LET err == inv[w].validated.err
                cause == ErrOf(w, "PipelineRuns.Get")
            IN  /\ Len(err) > Len(cause)
                /\ SubSeq(err, Len(err) - Len(cause) + 1, Len(err)) = cause
                /\ Mentions(err, inv[w].workload.namespace)
                /\ Mentions(err, inv[w].ownerPipelineRunReference.name)
                /\ Mentions(err, inv[w].workload.clusterName[1])

\* C15, amended: when the PipelineRun get fails with an error other than
\* not-found, the validator returns that error as it is, with no secret name
\* and no PipelineRun, and Reconcile returns the same error.
C15_FetchErrorPropagated ==
    \A w \in DOMAIN inv :
        FetchFailed(w) =>
            /\ inv[w].validated =
                  [secretName |-> "", pipelineRun |-> NoObj,
                   err |-> ErrOf(w, "PipelineRuns.Get")]
            /\ Done(w)
            /\ inv[w].err = ErrOf(w, "PipelineRuns.Get")

C15_Witness ==
    \E w \in DOMAIN inv :
        /\ Done(w)
        /\ FetchFailed(w)
        /\ inv[w].workload.clusterName = <<"cluster-b">>
        /\ inv[w].validated.err = ErrForbidden("pipelineruns.tekton.dev", "plr-1")
        /\ ~Mentions(inv[w].validated.err, "ns2")
        /\ ~Mentions(inv[w].validated.err, "cluster-b")

\* The invocation called getSpokeClusterConfig.
Resolved(w) == inv[w].resolved # NoObj

\* The cluster name getSpokeClusterConfig was called with.
ClusterOf(w) == inv[w].workload.clusterName[1]

\* The text of err holds the tokens of part, in a row.
Contains(err, part) ==
    \E i \in 1..(Len(err) - Len(part) + 1) : SubSeq(err, i, i + Len(part) - 1) = part

\* C16: for a cluster name with no registration, other clusters being
\* registered, getSpokeClusterConfig returns no config and an error whose text
\* contains "could not find MultiKueueCluster <clusterName>:".
C16_RegistrationAbsent ==
    \A w \in DOMAIN inv :
        Resolved(w) /\ ClusterOf(w) \notin DOMAIN mkClusters =>
            /\ inv[w].resolved.config = NoObj
            /\ Contains(inv[w].resolved.err,
                        <<"could not find MultiKueueCluster", ClusterOf(w), ":">>)

C16_Witness ==
    \E w \in DOMAIN inv :
        /\ Resolved(w)
        /\ ClusterOf(w) = "cluster-a"
        /\ "cluster-a" \notin DOMAIN mkClusters
        /\ "cluster-b" \in DOMAIN mkClusters
        /\ inv[w].resolved.err =
              <<"could not find MultiKueueCluster", "cluster-a", ":">>
                  \o ErrNotFound("multikueueclusters", "cluster-a")

\* The registration getSpokeClusterConfig was called for, there being one, and
\* the namespace and name of the credential secret it names.
RegistrationOf(w) == mkClusters[ClusterOf(w)]
CredentialKeyOf(w) == <<kueueNamespace, RegistrationOf(w).location>>

\* getSpokeClusterConfig was called for a registered cluster of location type
\* Secret, and the get of the registration was answered.
SecretLocated(w) ==
    /\ Resolved(w)
    /\ ClusterOf(w) \in DOMAIN mkClusters
    /\ ErrOf(w, "MultiKueueClusters.Get") = Nil
    /\ RegistrationOf(w).locationType = "Secret"

\* C17: for a registration of location type Secret whose secret the hub's
\* Kueue namespace does not hold, getSpokeClusterConfig returns an error whose
\* text contains "could not get kubeconfig secret <namespace>/<secretName>:".
C17_CredentialSecretAbsent ==
    \A w \in DOMAIN inv :
        SecretLocated(w) /\ CredentialKeyOf(w) \notin DOMAIN hubSecrets =>
            /\ inv[w].resolved.config = NoObj
            /\ Contains(inv[w].resolved.err,
                        <<"could not get kubeconfig secret", kueueNamespace, "/",
                          RegistrationOf(w).location, ":">>)

C17_Witness ==
    \E w \in DOMAIN inv :
        /\ SecretLocated(w)
        /\ ClusterOf(w) = "cluster-b"
        /\ <<kueueNamespace, "kubeconfig-b">> \notin DOMAIN hubSecrets
        /\ inv[w].resolved.err =
              <<"could not get kubeconfig secret", "kueue-system", "/", "kubeconfig-b", ":">>
                  \o ErrNotFound("secrets", "kubeconfig-b")

\* C18: for a registration of location type Secret whose secret exists without
\* a 'kubeconfig' data key, getSpokeClusterConfig fails with exactly
\* "kubeconfig secret <namespace>/<name> is missing 'kubeconfig' data key".
C18_MissingKubeconfigKey ==
    \A w \in DOMAIN inv :
        /\ SecretLocated(w)
        /\ CredentialKeyOf(w) \in DOMAIN hubSecrets
        /\ ErrOf(w, "KubeconfigSecret.Get") = Nil
        /\ "kubeconfig" \notin DOMAIN hubSecrets[CredentialKeyOf(w)].data
        => /\ inv[w].resolved.config = NoObj
           /\ inv[w].resolved.err =
                 <<"kubeconfig secret", kueueNamespace, "/", RegistrationOf(w).location,
                   "is missing 'kubeconfig' data key">>

C18_Witness ==
    \E w \in DOMAIN inv :
        /\ SecretLocated(w)
        /\ ClusterOf(w) = "cluster-nokey"
        /\ DOMAIN hubSecrets[<<kueueNamespace, "kubeconfig-nokey">>].data = {"config"}
        /\ inv[w].resolved.err =
              <<"kubeconfig secret", "kueue-system", "/", "kubeconfig-nokey",
                "is missing 'kubeconfig' data key">>

\* C19: for a registration whose location type is neither "Secret" nor "Path",
\* getSpokeClusterConfig fails with exactly "unsupported kubeconfig location
\* type: <value>", having read no secret and no file.
C19_UnsupportedLocationType ==
    \A w \in DOMAIN inv :
        /\ Resolved(w)
        /\ ClusterOf(w) \in DOMAIN mkClusters
        /\ ErrOf(w, "MultiKueueClusters.Get") = Nil
        /\ RegistrationOf(w).locationType \notin {"Secret", "Path"}
        => /\ inv[w].resolved.config = NoObj
           /\ inv[w].resolved.err =
                 <<"unsupported kubeconfig location type:", RegistrationOf(w).locationType>>
           /\ ~Issued(w, "KubeconfigSecret.Get")
           /\ ~Issued(w, "KubeconfigFile.Load")

C19_Witness ==
    \E w \in DOMAIN inv :
        /\ Resolved(w)
        /\ ClusterOf(w) = "cluster-lowercase"
        /\ "cluster-lowercase" \in DOMAIN mkClusters
        /\ inv[w].resolved.err = <<"unsupported kubeconfig location type:", "secret">>
        /\ Len(inv[w].calls) = 2

\* The hub served every get of the invocation from what it holds: none failed
\* but for an object that is not there.
Served(w) ==
    \A i \in 1..Len(inv[w].calls) :
        inv[w].calls[i].err = Nil \/ IsNotFound(inv[w].calls[i].err)

\* C20: for a registered cluster of location type Secret whose secret the
\* hub's Kueue namespace holds with a valid 'kubeconfig' payload, the hub
\* serving the gets, getSpokeClusterConfig returns without error a connection
\* whose host is the server of that cluster's own payload, whatever other
\* clusters are registered.
C20_ResolvesOwnCredential ==
    \A w \in DOMAIN inv :
        /\ SecretLocated(w)
        /\ CredentialKeyOf(w) \in DOMAIN hubSecrets
        /\ Served(w)
        /\ "kubeconfig" \in DOMAIN hubSecrets[CredentialKeyOf(w)].data
        /\ hubSecrets[CredentialKeyOf(w)].data["kubeconfig"].format = "kubeconfig"
        => /\ inv[w].resolved.err = Nil
           /\ inv[w].resolved.config # NoObj
           /\ inv[w].resolved.config.Host =
                 hubSecrets[CredentialKeyOf(w)].data["kubeconfig"].server

C20_Witness ==
    \E w \in DOMAIN inv :
        /\ SecretLocated(w)
        /\ ClusterOf(w) = "cluster-b"
        /\ {"cluster-a", "cluster-b"} \subseteq DOMAIN mkClusters
        /\ {<<kueueNamespace, "kubeconfig-a">>, <<kueueNamespace, "kubeconfig-b">>}
              \subseteq DOMAIN hubSecrets
        /\ inv[w].resolved.err = Nil
        /\ inv[w].resolved.config.Host = HostB

\* getSpokeClusterConfig was called for a registered cluster of location type
\* Path, and the get of the registration was answered.
PathLocated(w) ==
    /\ Resolved(w)
    /\ ClusterOf(w) \in DOMAIN mkClusters
    /\ ErrOf(w, "MultiKueueClusters.Get") = Nil
    /\ RegistrationOf(w).locationType = "Path"

\* No valid kubeconfig file is at the path.
NoValidFileAt(path) == path \notin DOMAIN Files \/ Files[path].format # "kubeconfig"

\* C21: for a registration of location type Path whose location names no
\* existing, valid kubeconfig file, the empty path included,
\* getSpokeClusterConfig returns an error and no connection.
C21_PathWithoutFileFails ==
    \A w \in DOMAIN inv :
        PathLocated(w) /\ NoValidFileAt(RegistrationOf(w).location) =>
            /\ inv[w].resolved.err # Nil
            /\ inv[w].resolved.config = NoObj

\* The same for every location but the empty path.
C21_NamedPathWithoutFileFails ==
    \A w \in DOMAIN inv :
        /\ PathLocated(w)
        /\ NoValidFileAt(RegistrationOf(w).location)
        /\ RegistrationOf(w).location # ""
        => /\ inv[w].resolved.err # Nil
           /\ inv[w].resolved.config = NoObj

\* The empty path resolved to the controller's own connection to the hub.
C21_Witness ==
    \E w \in DOMAIN inv :
        /\ PathLocated(w)
        /\ RegistrationOf(w).location = ""
        /\ inv[w].resolved.err = Nil
        /\ inv[w].resolved.config.Host = HostHub

\* The invocation returned nil and its create made the secret on the spoke.
Created(w) ==
    /\ Done(w)
    /\ inv[w].err = Nil
    /\ Issued(w, "SpokeSecret.Create")
    /\ ErrOf(w, "SpokeSecret.Create") = Nil

\* The PipelineRun's UID is among the UIDs of the secret's owner references.
OwnedBy(s, pipelineRun) ==
    \E i \in 1..Len(s.ownerReferences) : s.ownerReferences[i].uid = pipelineRun.uid

C22_WitnessUnowned ==
    \E w \in DOMAIN inv :
        /\ Created(w)
        /\ HubSecretOf(w).ownerReferences = <<>>
        /\ \E s \in SyncedSecrets(w) : s.ownerReferences = <<>>

\* The object's owner references include one of kind PipelineRun.
HasPipelineRunOwner(obj) ==
    \E i \in 1..Len(obj.ownerReferences) : obj.ownerReferences[i].kind = "PipelineRun"

\* The Workload the event handled last is about; NoObj when it carries none.
EventWorkload ==
    IF event.obj.kind = "DeletedFinalStateUnknown" THEN event.obj.obj ELSE event.obj

\* C23: for an event the handler enqueues the key of the observed Workload if
\* and only if one of its owner references has kind PipelineRun, and then
\* once; the key of a Workload with no PipelineRun owner reference is never
\* in the work queue and never handed to Reconcile.
C23_SelectiveEnqueue ==
    /\ event # NoObj =>
          /\ Len(event.enqueued) <= 1
          /\ EventWorkload = NoObj => event.enqueued = <<>>
          /\ EventWorkload # NoObj =>
                /\ HasPipelineRunOwner(EventWorkload) =>
                      event.enqueued = <<KeyOf(EventWorkload)>>
                /\ ~HasPipelineRunOwner(EventWorkload) => event.enqueued = <<>>
    /\ \A key \in queue : HasPipelineRunOwner(workloads[key])
    /\ \A w \in DOMAIN inv : inv[w].pc # "idle" => HasPipelineRunOwner(workloads[inv[w].key])

C23_Witness ==
    /\ event # NoObj
    /\ EventWorkload # NoObj
    /\ EventWorkload.name = "wl-two-runs"
    /\ event.enqueued = <<(<<"ns", "wl-two-runs">>)>>
    /\ queue = {<<"ns", "wl-two-runs">>, <<"ns", "wl-nonctrl">>}
    /\ \E w \in DOMAIN inv : inv[w].pc = "done" /\ inv[w].key = <<"ns", "wl-plr-1">>

\* The Syncer of the invocation read the hub secret and submitted a secret
\* for creation.
Submitted(w) == inv[w].submitted # NoObj

\* The hub secret the Syncer read: the one of the PipelineRun's namespace and
\* the secret name.
HubSecretRead(w) == hubSecrets[<<inv[w].pipelineRun.namespace, inv[w].secretName>>]

\* C24: the secret the Syncer submits for creation has the name, namespace,
\* labels, annotations, type and payload of the hub secret it read, and no
\* field the hub secret lacks.
C24_Projection ==
    \A w \in DOMAIN inv :
        Submitted(w) =>
            LET new == inv[w].submitted
                hub == HubSecretRead(w)
            IN  /\ new.name = hub.name
                /\ new.namespace = hub.namespace
                /\ new.labels = hub.labels
                /\ new.annotations = hub.annotations
                /\ new.type = hub.type
                /\ new.data = hub.data
                /\ DOMAIN new = DOMAIN hub

C24_Witness ==
    \E w \in DOMAIN inv :
        /\ Submitted(w)
        /\ inv[w].submitted.namespace = "ns"
        /\ inv[w].submitted.name = "git-creds"
        /\ inv[w].submitted.type = "kubernetes.io/basic-auth"
        /\ inv[w].submitted.data = ("token" :> "abc")
        /\ inv[w].submitted.labels = ("app" :> "pac")
        /\ inv[w].submitted.annotations = (<<groupName, "repo">> :> "r1")

\* C25: the submitted secret has as many owner references as the hub secret,
\* in the same order; each equals the hub secret's in every field but the
\* UID, which is the spoke PipelineRun's, whatever the reference's kind or
\* name; and the hub secret keeps its own owner references.
C25_OwnerReferenceRewrite ==
    \A w \in DOMAIN inv :
        Submitted(w) =>
            LET new == inv[w].submitted.ownerReferences
                hub == HubSecretRead(w).ownerReferences
            IN  /\ Len(new) = Len(hub)
                /\ \A i \in 1..Len(hub) :
                      /\ new[i] = [hub[i] EXCEPT !.uid = inv[w].pipelineRun.uid]
                      /\ new[i].uid = FetchedRun(w).uid
                /\ hub = InitHubSecrets[<<inv[w].pipelineRun.namespace,
                                           inv[w].secretName>>].ownerReferences

C25_Witness ==
    \E w \in DOMAIN inv :
        /\ Submitted(w)
        /\ Len(inv[w].submitted.ownerReferences) >= 2
        /\ inv[w].submitted.ownerReferences[2] =
              OwnerRef("Job", "job-1", "spoke-uid-plr-2", FALSE)
        /\ HubSecretRead(w).ownerReferences[2] =
              OwnerRef("Job", "job-1", "hub-uid-job-1", FALSE)

\* C26: when the get of the hub secret fails, with not-found or with any other
\* error, the Syncer returns an error and issues no create on the spoke, and
\* Reconcile returns a non-nil error.
C26_HubFetchFailure ==
    \A w \in DOMAIN inv :
        Issued(w, "HubSecret.Get") /\ ErrOf(w, "HubSecret.Get") # Nil =>
            /\ \A c \in Returned(w, "createSecretOnSpokeCluster") : c.err # Nil
            /\ Returned(w, "createSecretOnSpokeCluster") # {}
            /\ ~Issued(w, "SpokeSecret.Create")
            /\ inv[w].submitted = NoObj
            /\ Done(w)
            /\ inv[w].err # Nil

C26_Witness ==
    \E w \in DOMAIN inv :
        /\ Done(w)
        /\ inv[w].secretName = "absent-creds"
        /\ Issued(w, "HubSecret.Get")
        /\ ErrOf(w, "HubSecret.Get") = ErrNotFound("secrets", "absent-creds")
        /\ inv[w].err = ErrNotFound("secrets", "absent-creds")

\* The get of the hub secret failing otherwise.
C26_WitnessForbidden ==
    \E w \in DOMAIN inv :
        /\ Done(w)
        /\ Issued(w, "HubSecret.Get")
        /\ ErrOf(w, "HubSecret.Get") = ErrForbidden("secrets", "git-creds")
        /\ inv[w].err # Nil

\* The secrets a step adds to the spoke at host h.
Added(h) == spokeSecrets'[h] \ spokeSecrets[h]

\* A step of a Reconcile invocation leaves the Workloads, the registrations,
\* the PipelineRuns and the hub secrets as they are, keeps every spoke secret
\* as it is, and adds at most one secret, to one spoke, by a create it issued.
ReconcileStepFrame ==
    inv' # inv =>
        /\ workloads' = workloads
        /\ mkClusters' = mkClusters
        /\ spokePipelineRuns' = spokePipelineRuns
        /\ hubSecrets' = hubSecrets
        /\ \A h \in Hosts : spokeSecrets[h] \subseteq spokeSecrets'[h]
        /\ \A h, g \in Hosts : Added(h) # {} /\ Added(g) # {} => h = g
        /\ \A h \in Hosts : Cardinality(Added(h)) <= 1
        /\ \A h \in Hosts :
              Added(h) # {} =>
                  \E w \in DOMAIN inv :
                      /\ inv'[w] # inv[w]
                      /\ Added(h) = {inv'[w].submitted}
                      /\ inv'[w].calls[Len(inv'[w].calls)] = Call("SpokeSecret.Create", Nil)

\* C27: over any sequence of Reconcile invocations the controller never
\* creates, updates or deletes a Workload, a MultiKueueCluster, a PipelineRun
\* or a hub secret, never updates or deletes a spoke secret, and issues at
\* most one create of a spoke secret in an invocation.
C27_ReadOnlyButOneCreate ==
    /\ [][ReconcileStepFrame]_vars
    /\ [](\A w \in DOMAIN inv : Cardinality(CallsOf(w, "SpokeSecret.Create")) <= 1)

\* A second invocation met the secret another actor had put on the spoke and
\* left it there.
C27_Witness ==
    \E w \in DOMAIN inv :
        /\ Done(w)
        /\ Issued(w, "SpokeSecret.Create")
        /\ IsAlreadyExists(ErrOf(w, "SpokeSecret.Create"))
        /\ spokeSecrets[HostOf(w)] = ForeignSecrets[HostOf(w)]
        /\ inv[w].submitted \notin spokeSecrets[HostOf(w)]
        /\ hubSecrets = InitHubSecrets

\* The call at position i of the invocation's log failed; a create that met
\* an existing secret did not.
FailedAt(w, i) ==
    inv[w].calls[i].err # Nil /\ ~IsAlreadyExists(inv[w].calls[i].err)

\* Each remote operation is in the invocation's log at most once, and a call
\* that failed is the last one of an invocation that has returned.
IssuedOnce ==
    \A w \in DOMAIN inv :
        /\ \A op \in RemoteOps : Cardinality(CallsOf(w, op)) <= 1
        /\ \A i \in 1..Len(inv[w].calls) :
              FailedAt(w, i) => i = Len(inv[w].calls) /\ Done(w)

\* A step of the controller that puts a key into the work queue other than
\* for an event is the work queue taking an error return of that key's
\* invocation, which is over.
RequeuedAfterErrorReturn ==
    inv' # inv /\ ~(queue' \subseteq queue) =>
        \E w \in DOMAIN inv :
            /\ Done(w)
            /\ inv[w].err # Nil
            /\ queue' = queue \cup {inv[w].key}
            /\ inv'[w] = Idle

\* C28: within an invocation each remote operation is issued at most once and
\* a failed one is not issued again; a further attempt is made only by a new
\* invocation, after the error was returned.
C28_NoInternalRetries ==
    /\ []IssuedOnce
    /\ [][RequeuedAfterErrorReturn]_vars

C28_Witness ==
    \E w \in DOMAIN inv :
        /\ Done(w)
        /\ inv[w].key = <<"ns", "wl-plr-1">>
        /\ inv[w].key \notin queue
        /\ Len(inv[w].calls) = 6
        /\ inv[w].calls[6] = Call("SpokeSecret.Create", ErrForbidden("secrets", "git-creds"))
        /\ inv[w].err = ErrForbidden("secrets", "git-creds")
        /\ spokeSecrets[HostA] = {}

\* The namespace the controller is to look credential secrets up in, given
\* its environment.
ConfiguredNamespace ==
    IF "KUEUE_NAMESPACE" \in DOMAIN environ /\ environ["KUEUE_NAMESPACE"] # ""
    THEN environ["KUEUE_NAMESPACE"]
    ELSE "kueue-system"

\* The get of the credential secret was answered from that namespace: with
\* the secret of that namespace and the location's name, or with not-found
\* naming that namespace when it holds none.
LookedUpIn(w, namespace) ==
    LET key == <<namespace, RegistrationOf(w).location>> IN
    /\ key \in DOMAIN hubSecrets =>
          /\ ErrOf(w, "KubeconfigSecret.Get") = Nil
          /\ ("kubeconfig" \in DOMAIN hubSecrets[key].data
                 /\ hubSecrets[key].data["kubeconfig"].format = "kubeconfig")
             => (/\ inv[w].resolved.err = Nil
                 /\ inv[w].resolved.config.Host = hubSecrets[key].data["kubeconfig"].server)
    /\ key \notin DOMAIN hubSecrets =>
          /\ IsNotFound(ErrOf(w, "KubeconfigSecret.Get"))
          /\ Contains(inv[w].resolved.err,
                      <<"could not get kubeconfig secret", namespace, "/", key[2], ":">>)

\* C29: the Reconciler's Kueue namespace is the value KUEUE_NAMESPACE had at
\* construction, or "kueue-system" when it was unset or empty; it does not
\* change, and every lookup of a credential secret is made in it.
C29_HubNamespace ==
    /\ [](reconciler.kueueNamespace = ConfiguredNamespace)
    /\ [][reconciler' = reconciler]_vars
    /\ [](\A w \in DOMAIN inv :
             SecretLocated(w) /\ Served(w) => LookedUpIn(w, ConfiguredNamespace))

C29_Witness ==
    \E w \in DOMAIN inv :
        /\ environ = ("KUEUE_NAMESPACE" :> "custom-kueue")
        /\ SecretLocated(w)
        /\ ClusterOf(w) = "cluster-a"
        /\ inv[w].resolved.err = Nil
        /\ inv[w].resolved.config.Host = HostB

\* The default namespace, with the variable set to the empty string.
C29_WitnessDefault ==
    \E w \in DOMAIN inv :
        /\ environ = ("KUEUE_NAMESPACE" :> "")
        /\ reconciler.kueueNamespace = "kueue-system"
        /\ SecretLocated(w)
        /\ ClusterOf(w) = "cluster-a"
        /\ inv[w].resolved.err = Nil
        /\ inv[w].resolved.config.Host = HostA

\* The PipelineRuns each spoke holds once the pipeline system has created
\* ns/plr-1 on cluster-a.
EventualRuns ==
    [h \in Hosts |->
        IF h = HostA THEN InitSpokePipelineRuns[h] @@ (<<Plr1.namespace, Plr1.name>> :> Plr1)
        ELSE InitSpokePipelineRuns[h]]

\* The syncs that are due when the spokes hold those PipelineRuns: the host,
\* namespace and name of the secret, for every cached Workload that is in
\* scope, whose cluster is registered and resolves, and whose controlling
\* PipelineRun is on that spoke, is not done and names a secret the hub holds.
SyncDue(runs) ==
    {d \in [host : Hosts, namespace : {wl.namespace : wl \in QueueWorkloads},
            name : {k[2] : k \in DOMAIN InitHubSecrets}] :
        \E wl \in {x \in QueueWorkloads : InScope(x)} :
            LET r == getSpokeClusterConfig([kueueNamespace |-> kueueNamespace], InitMkClusters,
                                           InitHubSecrets, wl.clusterName[1], "none", TRUE)
            IN  /\ r.err = Nil
                /\ r.config.Host = d.host
                /\ wl.namespace = d.namespace
                /\ <<d.namespace, d.name>> \in DOMAIN InitHubSecrets
                /\ \E ref \in {c \in ControllerRefs(wl) : c.kind = "PipelineRun"} :
                      /\ <<wl.namespace, ref.name>> \in DOMAIN runs[d.host]
                      /\ LET plr == runs[d.host][<<wl.namespace, ref.name>>] IN
                         /\ ~plr.done
                         /\ gitAuthSecret \in DOMAIN plr.annotations
                         /\ plr.annotations[gitAuthSecret] = d.name}

\* The sync of ns/git-creds to cluster-a is due only once ns/plr-1 is there.
LateSync == CHOOSE d \in SyncDue(EventualRuns) \ SyncDue(InitSpokePipelineRuns) : TRUE

\* C30: under fair processing of the work queue, with a key added again after
\* every non-nil return, every sync that is due happens: the secret is on the
\* spoke in the end, also when the PipelineRun comes to the spoke only after a
\* Reconcile of the key has returned for PipelineRun-not-found.
C30_EventualSync ==
    \A d \in SyncDue(EventualRuns) : <>(SecretsAt(d.host, d.namespace, d.name) # {})

\* C30, for the PipelineRuns the spoke holds when the controller starts: every
\* such sync that is due happens.
C30_EventualSyncOfPresentRuns ==
    \A d \in SyncDue(InitSpokePipelineRuns) : <>(SecretsAt(d.host, d.namespace, d.name) # {})

\* The key of the Workload whose PipelineRun comes late, and whether the work
\* queue or the worker holds it.
LateKey == <<Plr1.namespace, "wl-plr-1">>
Pending(key) == key \in queue \/ inv["w1"].key = key

\* C30: once the key is neither queued nor with the worker and the secret is
\* not on the spoke, only an event of the informer brings the key back, and
\* without the key no step syncs the secret.
C30_NoSyncWithoutEvent ==
    [][/\ ~Pending(LateKey)
       /\ SecretsAt(LateSync.host, LateSync.namespace, LateSync.name) = {}
       /\ ~Observe
       => /\ ~Pending(LateKey)'
          /\ SecretsAt(LateSync.host, LateSync.namespace, LateSync.name)' = {}]_vars

\* C30: Reconcile has returned nil for PipelineRun-not-found and the key has
\* left the queue, the informer has delivered no event since, and the
\* PipelineRun is on the spoke, without its secret; the sync of a PipelineRun
\* that was there from the start has happened.
C30_Witness ==
    /\ ~Pending(LateKey) /\ event = NoObj
    /\ <<Plr1.namespace, Plr1.name>> \in DOMAIN spokePipelineRuns[LateSync.host]
    /\ SecretsAt(LateSync.host, LateSync.namespace, LateSync.name) = {}
    /\ SyncDue(InitSpokePipelineRuns) # {}
    /\ \A d \in SyncDue(InitSpokePipelineRuns) : SecretsAt(d.host, d.namespace, d.name) # {}

\* The secrets on the invocation's spoke under the identity the Syncer
\* projects: the PipelineRun's namespace and the annotated name.
Projected(w) == SecretsAt(HostOf(w), inv[w].pipelineRun.namespace, inv[w].secretName)

\* C31: when the spoke already holds a secret of the projected namespace and
\* name as Reconcile comes to sync it, the call of the Syncer leaves that
\* secret as it is (payload, labels, annotations, type, owner references),
\* whatever the hub secret and the PipelineRun's UID are by now, and Reconcile
\* returns nil once the hub and the spoke have answered its calls.
C31_PreExistingUntouched ==
    [][\A w \in DOMAIN inv :
          (inv[w].pc = "sync" /\ inv'[w].pc = "done" /\ Projected(w) # {}) =>
              /\ SecretsAt(HostOf(w), inv[w].pipelineRun.namespace, inv[w].secretName)'
                    = Projected(w)
              /\ Answered(w)' => inv'[w].err = Nil]_vars

\* Reconcile met on the spoke a secret another actor had made, with a payload
\* other than the hub secret's and owned by another PipelineRun, returned nil
\* and left it there.
C31_Witness ==
    \E w \in DOMAIN inv :
        /\ Done(w) /\ inv[w].err = Nil
        /\ Issued(w, "SpokeSecret.Create")
        /\ IsAlreadyExists(ErrOf(w, "SpokeSecret.Create"))
        /\ \E s \in SecretsAt(HostOf(w), inv[w].pipelineRun.namespace, inv[w].secretName) :
              /\ s.data # HubSecretRead(w).data
              /\ s.type # HubSecretRead(w).type
              /\ s.labels # HubSecretRead(w).labels
              /\ ~OwnedBy(s, inv[w].pipelineRun)
              /\ s \in ForeignSecrets[HostOf(w)]

\* Pairs of distinct Workloads of one hub: two whose PipelineRuns are in the
\* same namespace of cluster-a and name the same secret; two that sync to
\* different spokes; and one that syncs beside one whose PipelineRun is done,
\* names no secret, or is no PipelineRun.
OrderPairs ==
    LET W(ns, n, c, p) == Workload(ns, n, NilPtr, <<c>>, <<Ctrl("PipelineRun", p)>>)
    IN  {{W("ns", "wl-plr-1", "cluster-a", "plr-1"), W("ns", "wl-plr-2", "cluster-a", "plr-2")},
         {W("ns", "wl-plr-2", "cluster-a", "plr-2"), W("ns2", "wl-plr-1", "cluster-b", "plr-1")},
         {W("ns", "wl-plr-2", "cluster-a", "plr-2"), W("ns", "wl-plr-4", "cluster-a", "plr-4")},
         {W("ns", "wl-plr-1", "cluster-a", "plr-1"), W("ns", "wl-plr-3", "cluster-a", "plr-3")},
         {W("ns", "wl-plr-2", "cluster-a", "plr-2"),
          Workload("ns", "wl-job", NilPtr, <<"cluster-a">>, <<Ctrl("Job", "job-1")>>)}}

\* The controller with the keys of two Workloads in its work queue, every
\* PipelineRun on its spoke and no secret on any spoke.
InitOrder ==
    /\ InitController(NoMap)
    /\ mkClusters = InitMkClusters
    /\ hubSecrets = InitHubSecrets
    /\ spokePipelineRuns = EventualRuns
    /\ spokeSecrets = [h \in Hosts |-> {}]
    /\ \E pair \in OrderPairs :
          /\ workloads = CacheOf(pair)
          /\ queue = {KeyOf(wl) : wl \in pair}
    /\ event = NoObj
    /\ inv = [w \in {"w1"} |-> Idle]

\* The worker reconciles the queued keys one after the other, in any order.
NextOrder ==
    \/ \E w \in DOMAIN inv : Dequeue(w)
    \/ \E w \in DOMAIN inv : Resolve(w)
    \/ \E w \in DOMAIN inv : Validate(w)
    \/ \E w \in DOMAIN inv : Sync(w)
    \/ \E w \in DOMAIN inv : Finish(w)

SpecOrder == InitOrder /\ [][NextOrder]_vars

\* The spokes' secrets after one Reconcile of the key, run to its return on
\* servers that answer every call, from the spokes' secrets `stores`.
AfterReconcile(key, stores) ==
    LET r0 == reconcileEnter(key, workloads, FALSE)
        r1 == IF r0.pc = "resolve"
              THEN reconcileResolve(reconciler, r0, mkClusters, hubSecrets, "none", TRUE)
              ELSE r0
        r2 == IF r1.pc = "validate"
              THEN reconcileValidate(r1, spokePipelineRuns[r1.spokeClusterConfig.Host], FALSE)
              ELSE r1
    IN  IF r2.pc = "sync"
        THEN LET host == r2.spokeClusterConfig.Host
             IN  [stores EXCEPT
                     ![host] = reconcileSync(r2, hubSecrets, stores[host], "none").store]
        ELSE stores

\* The spokes' secrets after the two Workloads of the cache were reconciled in
\* that order, from spokes without secrets.
AfterBoth(first, second) ==
    AfterReconcile(second, AfterReconcile(first, [h \in Hosts |-> {}]))

\* Both keys have been reconciled to a nil return and the worker is free.
Settled == queue = {} /\ inv["w1"].pc = "idle"

\* The secret without the UIDs of its owner references.
WithoutOwnerUIDs(s) ==
    [s EXCEPT !.ownerReferences = [i \in 1..Len(s.ownerReferences) |->
                                      [s.ownerReferences[i] EXCEPT !.uid = ""]]]

\* C32: once two distinct Workloads have been reconciled one after the other,
\* the spokes hold the same secrets, with the same payloads and owner UIDs,
\* as after reconciling them in either order.
C32_OrderIndependence ==
    Settled =>
        \A a, b \in DOMAIN workloads :
            a # b => spokeSecrets = AfterBoth(a, b)

\* C32, but for the owner UIDs: the secrets the spokes hold in the end, their
\* identities, payloads, types, labels, annotations and the rest of their
\* owner references are those of either order.
C32_OrderIndependentButOwners ==
    Settled =>
        \A a, b \in DOMAIN workloads :
            a # b =>
                \A h \in Hosts :
                    {WithoutOwnerUIDs(s) : s \in spokeSecrets[h]}
                        = {WithoutOwnerUIDs(s) : s \in AfterBoth(a, b)[h]}

\* Both Workloads of ns on cluster-a have been reconciled, and the one secret
\* their PipelineRuns name is owned by the PipelineRun of wl-plr-2 alone, while
\* the other order leaves it owned by the PipelineRun of wl-plr-1.
C32_Witness ==
    /\ Settled
    /\ DOMAIN workloads = {<<"ns", "wl-plr-1">>, <<"ns", "wl-plr-2">>}
    /\ \E s \in SecretsAt(HostA, "ns", "git-creds") :
          /\ OwnedBy(s, spokePipelineRuns[HostA][<<"ns", "plr-2">>])
          /\ ~OwnedBy(s, Plr1)
    /\ \E s \in AfterBoth(<<"ns", "wl-plr-1">>, <<"ns", "wl-plr-2">>)[HostA] :
          /\ s.namespace = "ns" /\ s.name = "git-creds"
          /\ OwnedBy(s, Plr1)

\* The host of the spoke the registration of that name leads to: the server
\* of the kubeconfig in its credential secret or in its file.
HostNamed(clusterName) ==
    LET reg == mkClusters[clusterName]
    IN  IF reg.locationType = "Secret"
        THEN hubSecrets[<<reconciler.kueueNamespace, reg.location>>].data["kubeconfig"].server
        ELSE Files[reg.location].server

\* C33: every secret a Reconcile creates goes to the spoke the Workload's
\* status cluster name leads to, is in the Workload's namespace, is named by
\* the git-auth-secret annotation of the PipelineRun of that namespace and
\* spoke that has the name of the Workload's controller owner, and carries the
\* payload of the hub secret of that namespace and name.
C33_SyncedSecretIdentity ==
    [][\A h \in Hosts :
          (inv' # inv /\ Added(h) # {}) =>
              \E w \in DOMAIN inv :
                  /\ inv'[w] # inv[w]
                  /\ h = HostNamed(inv'[w].workload.clusterName[1])
                  /\ LET wl == inv'[w].workload
                         owner == GetControllerOf(wl)
                         run == spokePipelineRuns[h][<<wl.namespace, owner.name>>]
                     IN  \A s \in Added(h) :
                             /\ s.namespace = wl.namespace
                             /\ s.name = run.annotations[gitAuthSecret]
                             /\ s.data = hubSecrets[<<wl.namespace, s.name>>].data
                             /\ s.type = hubSecrets[<<wl.namespace, s.name>>].type]_vars

\* Reconcile created the secret of the Workload of ns2 on cluster-b: it is in
\* ns2 on that spoke and has the payload of the hub's ns2/git-creds, not of
\* ns/git-creds.
C33_Witness ==
    \E w \in DOMAIN inv :
        /\ Created(w)
        /\ inv[w].workload.namespace = "ns2"
        /\ HostOf(w) = HostB /\ HostNamed(inv[w].workload.clusterName[1]) = HostB
        /\ \E s \in spokeSecrets[HostB] :
              /\ s.namespace = "ns2" /\ s.name = "git-creds"
              /\ s.data = hubSecrets[<<"ns2", "git-creds">>].data
              /\ s.data # hubSecrets[<<"ns", "git-creds">>].data
        /\ spokeSecrets[HostA] = {}

\* Reconcile has called the Syncer in this invocation, or is about to.
SyncerCalled(w) ==
    \/ inv[w].pc = "sync"
    \/ Returned(w, "createSecretOnSpokeCluster") # {}
    \/ Issued(w, "HubSecret.Get")

\* C34: whenever the validator returns a non-empty secret name and no error
\* it returns a PipelineRun with it, and Reconcile calls the Syncer only with
\* the non-empty secret name and the PipelineRun the validator returned; so
\* the Syncer never works on an absent PipelineRun.
C34_SyncerGetsPipelineRun ==
    \A w \in DOMAIN inv :
        /\ (Validated(w) /\ inv[w].validated.err = Nil /\ inv[w].validated.secretName # "")
              => inv[w].validated.pipelineRun # NoObj
        /\ SyncerCalled(w) =>
              /\ Validated(w)
              /\ inv[w].validated.err = Nil
              /\ inv[w].secretName # ""
              /\ inv[w].secretName = inv[w].validated.secretName
              /\ inv[w].pipelineRun # NoObj
              /\ inv[w].pipelineRun = inv[w].validated.pipelineRun
              /\ inv[w].pipelineRun.kind = "PipelineRun"

\* Reconcile is about to call the Syncer, with the secret name the validator
\* returned and the PipelineRun it fetched from the spoke.
C34_Witness ==
    \E w \in DOMAIN inv :
        /\ inv[w].pc = "sync"
        /\ inv[w].secretName = "git-creds"
        /\ inv[w].pipelineRun = spokePipelineRuns[HostOf(w)][<<inv[w].workload.namespace,
                                                              GetControllerOf(inv[w].workload).name>>]
        /\ ~Issued(w, "HubSecret.Get")

\* The validator returned the PipelineRun whose annotation is empty, with the
\* empty secret name, and Reconcile returned nil without calling the Syncer.
C34_WitnessEmptyName ==
    \E w \in DOMAIN inv :
        /\ Done(w) /\ Validated(w)
        /\ inv[w].validated.secretName = "" /\ inv[w].validated.err = Nil
        /\ inv[w].validated.pipelineRun # NoObj
        /\ ~SyncerCalled(w)

\* The Workload passes Reconcile's owner gate: it has a controller owner
\* reference, of kind PipelineRun.
PassesOwnerGate(obj) ==
    \E i \in 1..Len(obj.ownerReferences) :
        /\ obj.ownerReferences[i].controller
        /\ obj.ownerReferences[i].kind = "PipelineRun"
        /\ \A j \in 1..(i - 1) : ~obj.ownerReferences[j].controller

\* C35: the handler enqueues the key of every observed Workload that passes
\* Reconcile's owner gate, so every cached Workload Reconcile would act on
\* comes to the work queue with its event; and for a Workload whose owner
\* references of kind PipelineRun are all non-controller references, which
\* the handler enqueues too, Reconcile returns nil without a remote call.
C35_FilterNoStricterThanGate ==
    /\ (event # NoObj /\ EventWorkload # NoObj /\ PassesOwnerGate(EventWorkload))
          => event.enqueued = <<KeyOf(EventWorkload)>>
    /\ (event # NoObj /\ EventWorkload # NoObj /\ HasPipelineRunOwner(EventWorkload)
        /\ ~PassesOwnerGate(EventWorkload))
          => event.enqueued = <<KeyOf(EventWorkload)>>
    /\ \A w \in DOMAIN inv :
          (inv[w].workload # NoObj /\ ~PassesOwnerGate(inv[w].workload))
             => /\ Done(w)
                /\ inv[w].err = Nil
                /\ NoRemoteCall(w)
                /\ inv[w].calls = <<Call("WorkloadLister.Get", Nil)>>

\* The handler enqueued the key of wl-nonctrl, whose controller is a Job and
\* whose PipelineRun owner reference is not its controller; Reconcile took the
\* key and returned nil at the owner gate; the last event enqueued a Workload
\* that passes the gate.
C35_Witness ==
    /\ event # NoObj /\ EventWorkload # NoObj
    /\ PassesOwnerGate(EventWorkload)
    /\ event.enqueued = <<KeyOf(EventWorkload)>>
    /\ \E w \in DOMAIN inv :
          /\ Done(w) /\ inv[w].key = <<"ns", "wl-nonctrl">>
          /\ inv[w].workload # NoObj
          /\ HasPipelineRunOwner(inv[w].workload)
          /\ GetControllerOf(inv[w].workload).kind = "Job"
          /\ inv[w].err = Nil /\ NoRemoteCall(w)

============================================================================
